---- MODULE Spec2Model ----
(***************************************************************************)
(* A state-machine model of the MonoSAT C API (src/monosat/api/Monosat.cpp) *)
(* over one solver with one graph.  The API layer is translated from the   *)
(* source; the CDCL(T) engine and the graph plugin it calls (Solver,       *)
(* GraphTheorySolver, minimizeCore) are not among the source files and are *)
(* modelled from the specification (sections 3, 4.1-4.3).                  *)
(***************************************************************************)
EXTENDS Integers, Sequences, FiniteSets, TLC

(* ------------------------------ bounds -------------------------------- *)
MaxVars == 3
NumNodes == 2
MaxClauses == 1
MaxClauseLen == 2
MaxAssumps == 2
MaxCoreLen == 3
MaxBudget == 1
MaxSolves == 1
MaxLimitedSolves == 2
BvWidth == 1
MaxBvs == 1
MaxCmps == 2

(* ------------------------- literals and lbool ------------------------- *)
\* toInt(lbool): "Returns 0 for true, 1 for false, 2 for unassigned."
l_True == 0
l_False == 1
l_Undef == 2

\* mkLit / toInt(Lit): a literal is 2*var + sign.
mkLit(v, s) == 2 * v + (IF s THEN 1 ELSE 0)
var(l) == l \div 2
sign(l) == (l % 2) = 1
neg(l) == IF sign(l) THEN l - 1 ELSE l + 1

varToLit(variable, negated) == mkLit(variable, negated)
lit_Undef == -2

(* ------------------------------ state --------------------------------- *)
VARIABLES
  nVars,        \* S->nVars(): number of allocated variables
  edges,        \* the graph's edges, by edge id: [from, to, v]
  reachLits,    \* the reach detectors posted: set of [from, to, v]
  clauses,      \* problem clauses added (sets of literals)
  learnts,      \* learned clauses
  okay,         \* S->okay(): FALSE once the formula is unsatisfiable at root
  trail,        \* assignment stack: [lit, level, reason]
  trail_lim,    \* trail size at the start of each decision level
  elog,         \* graph plugin's edge-assignment log: [e, level, val]
  under,        \* under-approximate view: edge ids enabled
  over,         \* over-approximate view: edge ids not disabled
  dirty,        \* graph plugin has changes it has not propagated yet
  model,        \* S->model: lbool per variable, <<>> when there is none
  conflict,     \* S->conflict: final conflict clause (set of literals)
  has_conflict_clause_from_last_solution,
  last_solution_optimal,
  conflict_budget,
  propagation_budget,
  asynch_interrupt,
  assumptions,  \* _solve's vector `assume`: the assumptions of the solve in progress
  pending,      \* learned clause waiting to be asserted after a backjump
  pc,           \* "idle" | "search" | "learn"
  snap,         \* per open level k: trail and plugin state when level k was opened
  nSolves,      \* number of solve / minimizeUnsatCore calls made so far
  last          \* the last call that returned a status: [op, ret, arg, out, prev];
                \* none once the problem was extended after it

\* The API layer's bookkeeping and the other theories.
VARIABLES
  outfile,      \* MonosatData::outfile is set (setOutputFile was called)
  gnf,          \* the lines written to the output file so far
  hidden,       \* internal variables made by S->newVar() that no client was handed
  amo,          \* the AMOTheory plugins, in creation order: each a set of variables
  bvs,          \* the constant bitvectors, by id: their values
  bvCmps,       \* bitvector comparison literals: [op, bv, k, v]
  varNames,     \* S->setVariableName: the named variables, [v, name]
  nodeNames,    \* the graph's nodes, by id: their names (<<>> when unnamed)
  distLits,     \* the hop-count detectors posted: [from, to, within, v], within >= 0
  preds,        \* the other graph predicates posted: [kind, args, v]
  fsms,         \* the FSM theory's machines, by id: their number of states
  err           \* the exception the last naming call threw, "" if it returned

\* The theories' further tables, and the process the solvers live in.
VARIABLES
  bvBits,       \* the bitvectors built from bits: [bv, bits], bits a sequence of variables
  bvBvCmps,     \* comparisons of two bitvectors: [op, bv, other, v]
  bvOps,        \* the bitvector theory's operators: [op, result, args]
  edgeSets,     \* the newEdgeSet calls that returned: [edges, enforce]
  capacity,     \* MaxFlow::setCapacity: the capacity of each edge << u, w >>
  proc,         \* namespace APISignal's statics and the OS state they act on
  heap,         \* the other solver objects, by handle: "unborn" | "live" | "freed"
  call          \* the newSolver_args / deleteSolver call in progress: [op, S, at]

\* The solver's constant-true literal, and MonosatData's further fields.
VARIABLES
  const_true,   \* S->const_true: the literal S->True() made, lit_Undef before
  reader,       \* the readGNF call in progress: its locals and the parser's state
  optimization_objectives,  \* MonosatData::optimization_objectives
  bv_theory,    \* MonosatData::bv_theory: 0 for nullptr, else the k-th theory made
  graphs        \* MonosatData::graphs: per graph, the theory setBVTheory gave it

traceVars == << outfile, gnf >>
theoryVars == << hidden, amo, bvs, bvCmps >>
bookVars == << varNames, nodeNames, distLits, preds, fsms, err >>
apiVars == << traceVars, theoryVars, bookVars >>
bvMoreVars == << bvBits, bvBvCmps, bvOps >>
moreVars == << const_true, reader, optimization_objectives, bv_theory, graphs >>
procVars == << proc, heap, call, moreVars >>
otherVars == << bvMoreVars, edgeSets, capacity, procVars >>

vars == << nVars, edges, reachLits, clauses, learnts, okay, trail, trail_lim,
           elog, under, over, dirty, model, conflict,
           has_conflict_clause_from_last_solution, last_solution_optimal,
           conflict_budget, propagation_budget, asynch_interrupt,
           assumptions, pending, pc, snap, nSolves, last, apiVars, otherVars >>

problemVars == << nVars, edges, reachLits, clauses >>
budgetVars == << conflict_budget, propagation_budget >>
resultVars == << model, conflict, has_conflict_clause_from_last_solution,
                 last_solution_optimal >>
graphVars == << edges, reachLits, elog, under, over, dirty >>
runVars == << budgetVars, resultVars, asynch_interrupt, assumptions, pending,
              pc, snap, nSolves >>

Nodes == 0 .. (NumNodes - 1)
Vars == 0 .. (nVars - 1)
Lits == { mkLit(v, s) : v \in Vars, s \in BOOLEAN }
EdgeIds == 1 .. Len(edges)

decisionLevel == Len(trail_lim)

(* ------------------------ external <-> internal ------------------------ *)
\* S->mapVar / S->unmap over the two dense arrays ext->int and int->ext: a
\* variable is mapped, to the next free external number, when the API call
\* that creates it hands it to the client; the variables in `hidden` never are.
Mapped == Vars \ hidden
ExtVars == 0 .. (Cardinality(Mapped) - 1)
ExtLits == { mkLit(v, s) : v \in ExtVars, s \in BOOLEAN }
externalVar(v) == Cardinality((0 .. (v - 1)) \ hidden)
\* Variant: the external number is used as the internal one.
internalVar_same(v) == v

internalVar(v) == CHOOSE w \in Mapped : externalVar(w) = v
internalLit(l) == mkLit(internalVar(var(l)), sign(l))
externalLit(l) == mkLit(externalVar(var(l)), sign(l))

\* Variant: the DIMACS number is the variable's own number.
dimacs_zeroBased(e) == IF sign(e) THEN -var(e) ELSE var(e)

\* int dimacs(int externalLit) and int dimacs(S, Lit internalLit)
dimacs(e) == IF sign(e) THEN -(var(e) + 1) ELSE var(e) + 1
dimacs_S(l) == dimacs(externalLit(l))

\* write_out(S, fmt, ...): one line appended when an output file is set.
write_out(line) == IF outfile THEN Append(gnf, line) ELSE gnf

(* ------------------------- assignment on a trail ---------------------- *)
TrailLits(tr) == { tr[i].lit : i \in 1 .. Len(tr) }

valueOn(tr, l) ==
  IF l \in TrailLits(tr) THEN l_True
  ELSE IF neg(l) \in TrailLits(tr) THEN l_False
  ELSE l_Undef

value(l) == valueOn(trail, l)

PosOf(tr, v) == CHOOSE i \in 1 .. Len(tr) : var(tr[i].lit) = v
LevelOf(tr, v) == tr[PosOf(tr, v)].level

(* ------------------------------ graph ---------------------------------- *)
RECURSIVE Closure(_, _, _)
Closure(E, R, n) ==
  IF n = 0 THEN R
  ELSE LET R2 == R \cup { edges[e].to : e \in { x \in E : edges[x].from \in R } }
       IN IF R2 = R THEN R ELSE Closure(E, R2, n - 1)

ReachSet(E, s) == Closure(E, {s}, Len(edges) + 1)
HasPath(E, s, t) == t \in ReachSet(E, s)

edgeLit(e) == mkLit(edges[e].v, FALSE)
isEdgeVar(v) == \E e \in EdgeIds : edges[e].v = v
EdgesOfVar(v) == { e \in EdgeIds : edges[e].v = v }

\* The views a trail induces: enabled edges, and edges not disabled.
UnderOn(tr) == { e \in EdgeIds : valueOn(tr, edgeLit(e)) = l_True }
OverOn(tr) == { e \in EdgeIds : valueOn(tr, edgeLit(e)) # l_False }

(* --------------------- engine state as one record ---------------------- *)
Cur == [ trail |-> trail, lim |-> trail_lim, elog |-> elog,
         under |-> under, over |-> over ]

Install(st) ==
  /\ trail' = st.trail
  /\ trail_lim' = st.lim
  /\ elog' = st.elog
  /\ under' = st.under
  /\ over' = st.over

\* Graph plugin: enqueue_theory(lit) for an edge literal. The assignment is
\* logged with its level and applied to the two views.
GraphEnqueue(st, l, lev) ==
  LET es == { e \in EdgeIds : edges[e].v = var(l) }
      e0 == CHOOSE e \in es : TRUE
  IN IF es = {} THEN st
     ELSE [ st EXCEPT
              !.elog = Append(st.elog, [e |-> e0, level |-> lev, val |-> ~sign(l)]),
              !.under = IF sign(l) THEN st.under ELSE st.under \cup {e0},
              !.over = IF sign(l) THEN st.over \ {e0} ELSE st.over ]

\* Graph plugin: backtrack(level). Pops the log above `lev`, undoing each entry.
RECURSIVE GraphBacktrack(_, _)
GraphBacktrack(st, lev) ==
  IF Len(st.elog) = 0 \/ st.elog[Len(st.elog)].level <= lev THEN st
  ELSE LET x == st.elog[Len(st.elog)]
       IN GraphBacktrack(
            [ st EXCEPT
                !.elog = SubSeq(st.elog, 1, Len(st.elog) - 1),
                !.under = IF x.val THEN st.under \ {x.e} ELSE st.under,
                !.over = IF x.val THEN st.over ELSE st.over \cup {x.e} ],
            lev)

\* Solver::uncheckedEnqueue: push on the trail at the current level and hand a
\* theory literal to its plugin.
uncheckedEnqueue(st, l, reason) ==
  LET lev == Len(st.lim)
      st1 == [ st EXCEPT !.trail = Append(st.trail,
                            [lit |-> l, level |-> lev, reason |-> reason]) ]
  IN GraphEnqueue(st1, l, lev)

\* Solver::newDecisionLevel
newDecisionLevel(st) == [ st EXCEPT !.lim = Append(st.lim, Len(st.trail)) ]

\* Solver::cancelUntil(level): pop the trail and notify the plugin.
cancelUntil(st, lev) ==
  IF Len(st.lim) <= lev THEN st
  ELSE GraphBacktrack(
         [ st EXCEPT !.trail = SubSeq(st.trail, 1, st.lim[lev + 1]),
                     !.lim = SubSeq(st.lim, 1, lev) ],
         lev)

\* Whether cancelUntil(st, lev) pops an edge assignment (the plugin then has
\* something new to look at).
PopsEdge(st, lev) == \E i \in 1 .. Len(st.elog) : st.elog[i].level > lev

Reason(t, c) == [t |-> t, c |-> c]
NoCall == [op |-> "none", ret |-> 0, arg |-> <<>>, out |-> <<>>, prev |-> -1]
Call(op, ret, arg, out) ==
  [op |-> op, ret |-> ret, arg |-> arg, out |-> out, prev |-> -1]
\* A solve call: prev is what the solve call before it returned, when nothing
\* but limit settings and backtrack() came between the two (-1 otherwise).
SolveCall(op, ret, arg, prev) ==
  [op |-> op, ret |-> ret, arg |-> arg, out |-> <<>>, prev |-> prev]

(* ---------------- the process: resource limits and signals ------------- *)
\* <climits> and <sys/resource.h>: INT32_MAX; RLIM_INFINITY, the largest
\* rlim_t, is the largest number here too. One megabyte, as enableResourceLimits
\* multiplies it out.
INT32_MAX == 2147483647
RLIM_INFINITY == 2147483647
MiB == 1024 * 1024

\* <signal.h>: the dispositions of SIGXCPU. SIG_DFL is ((sighandler_t) 0), the
\* null pointer, so that `if (system_sigxcpu_handler)` asks for another one.
SIG_DFL == "SIG_DFL"
SIG_IGN == "SIG_IGN"
UserHandler == "a handler of the client"
SIGNAL_HANDLER_api == "SIGNAL_HANDLER_api"

\* Solver handles: 1 is the solver whose clauses, trail and graph the model
\* holds; the others are known by their place in the heap and the registry.
MaxSolvers == 2
OtherSolvers == 2 .. MaxSolvers

\* The statics of namespace APISignal after the static initializer ran, in a
\* process whose limits are cpu and as and whose SIGXCPU disposition is h;
\* stdout counts the lines the signal handler has printed.
ProcBoot(cpu, as, h) ==
  [ time_limit |-> -1, memory_limit |-> -1,
    has_system_time_limit |-> FALSE, system_time_limit |-> 0,
    has_system_mem_limit |-> FALSE, system_mem_limit |-> 0,
    solvers |-> {}, system_sigxcpu_handler |-> SIG_DFL,
    RLIMIT_CPU |-> cpu, RLIMIT_AS |-> as, SIGXCPU |-> h, stdout |-> 0 ]

Rlimit(cur, max) == [rlim_cur |-> cur, rlim_max |-> max]

\* Variant: the limits in force are saved on every call.
enableResourceLimits_saveAgain(p, cur_time) ==
  LET rl == p.RLIMIT_CPU
      ra == p.RLIMIT_AS
  IN [ p EXCEPT
         !.has_system_time_limit = TRUE,
         !.system_time_limit = rl.rlim_cur,
         !.RLIMIT_CPU = IF p.time_limit < INT32_MAX /\ p.time_limit >= 0
                        THEN [rl EXCEPT !.rlim_cur = p.time_limit + cur_time]
                        ELSE [rl EXCEPT !.rlim_cur = rl.rlim_max],
         !.has_system_mem_limit = TRUE,
         !.system_mem_limit = ra.rlim_cur,
         !.SIGXCPU = SIGNAL_HANDLER_api ]

\* void enableResourceLimits(), cur_time being what getrusage reports.
\* setrlimit is only ever handed a soft limit within the hard one, which
\* the OS accepts.
enableResourceLimits(p, cur_time) ==
  LET rl == p.RLIMIT_CPU
      cpu == IF p.time_limit < INT32_MAX /\ p.time_limit >= 0
             THEN LET local_time_limit == p.time_limit + cur_time
                  IN IF rl.rlim_max = RLIM_INFINITY \/ local_time_limit < rl.rlim_max
                     THEN [rl EXCEPT !.rlim_cur = local_time_limit]
                     ELSE rl
             ELSE [rl EXCEPT !.rlim_cur = rl.rlim_max]
      ra == p.RLIMIT_AS
      mem == IF p.memory_limit < INT32_MAX /\ p.memory_limit >= 0
             THEN LET new_mem_lim == p.memory_limit * MiB
                  IN IF ra.rlim_max = RLIM_INFINITY \/ new_mem_lim < ra.rlim_max
                     THEN [ra EXCEPT !.rlim_cur = new_mem_lim]
                     ELSE [ra EXCEPT !.rlim_cur = ra.rlim_max]
             ELSE ra
      old_sigxcpu == p.SIGXCPU
  IN [ p EXCEPT
         !.has_system_time_limit = TRUE,
         !.system_time_limit = IF p.has_system_time_limit THEN @ ELSE rl.rlim_cur,
         !.RLIMIT_CPU = cpu,
         !.has_system_mem_limit = TRUE,
         !.system_mem_limit = IF p.has_system_mem_limit THEN @ ELSE ra.rlim_cur,
         !.RLIMIT_AS = mem,
         !.SIGXCPU = SIGNAL_HANDLER_api,
         !.system_sigxcpu_handler =
            IF old_sigxcpu # SIGNAL_HANDLER_api THEN old_sigxcpu ELSE @ ]

\* void disableResourceLimits()
disableResourceLimits(p) ==
  LET rl == p.RLIMIT_CPU
      cpu == IF p.has_system_time_limit
             THEN IF rl.rlim_max = RLIM_INFINITY \/ p.system_time_limit < rl.rlim_max
                  THEN [rl EXCEPT !.rlim_cur = p.system_time_limit]
                  ELSE [rl EXCEPT !.rlim_cur = rl.rlim_max]
             ELSE rl
      ra == p.RLIMIT_AS
      mem == IF p.has_system_mem_limit
             THEN IF ra.rlim_max = RLIM_INFINITY \/ p.system_mem_limit < ra.rlim_max
                  THEN [ra EXCEPT !.rlim_cur = p.system_mem_limit]
                  ELSE [ra EXCEPT !.rlim_cur = ra.rlim_max]
             ELSE ra
  IN [ p EXCEPT
         !.has_system_time_limit = FALSE,
         !.RLIMIT_CPU = cpu,
         !.has_system_mem_limit = FALSE,
         !.RLIMIT_AS = mem,
         !.SIGXCPU = IF p.system_sigxcpu_handler # SIG_DFL
                     THEN p.system_sigxcpu_handler ELSE @,
         !.system_sigxcpu_handler = SIG_DFL ]

\* No call of newSolver_args or deleteSolver is in progress.
NoApiCall == [op |-> "none", S |-> 0, at |-> ""]

\* No readGNF call is in progress.
NoRead == [at |-> "none", file |-> <<>>, trailing |-> FALSE, pos |-> 0,
           assumps |-> <<>>, ran_last_solve |-> FALSE,
           parser_assumptions |-> <<>>, calls |-> 0]

\* initBVTheory() and newGraph() have been called, in this order.
DataInit ==
  /\ reader = NoRead
  /\ optimization_objectives = <<>>
  /\ bv_theory = 1
  /\ graphs = << 1 >>

\* The further tables are empty, and no other solver exists.
TheoryTablesInit ==
  /\ bvBits = {}
  /\ bvBvCmps = {}
  /\ bvOps = {}
  /\ edgeSets = <<>>
  /\ capacity = <<>>
  /\ heap = [s \in OtherSolvers |-> "unborn"]
  /\ call = NoApiCall
  /\ const_true = lit_Undef

MoreTablesInit == TheoryTablesInit /\ DataInit

\* newSolver() has registered solver 1 in a process that started with the
\* limits cpu and as and the SIGXCPU disposition h.
ProcInit(cpu, as, h) == proc = [ ProcBoot(cpu, as, h) EXCEPT !.solvers = {1} ]

\* A process without limits and with the default SIGXCPU disposition.
OtherInit ==
  /\ MoreTablesInit
  /\ ProcInit(Rlimit(RLIM_INFINITY, RLIM_INFINITY),
              Rlimit(RLIM_INFINITY, RLIM_INFINITY), SIG_DFL)

\* What getrusage may report as the CPU time used so far.
MaxCpuTime == 1
CpuTimes == 0 .. MaxCpuTime

\* otherVars without proc.
quietVars == << bvMoreVars, edgeSets, capacity, heap, call, moreVars >>

\* The end of _solve: once the search has returned, disableResourceLimits runs.
LeaveSolve ==
  proc' = IF pc # "idle" /\ pc' = "idle" THEN disableResourceLimits(proc) ELSE proc

(* ------------------------------- Init ---------------------------------- *)
\* No output file, no bitvectors, no edge sets, no names.
ApiTablesInit(nNodes) ==
  /\ outfile = FALSE
  /\ gnf = <<>>
  /\ hidden = {}
  /\ amo = <<>>
  /\ bvs = <<>>
  /\ bvCmps = {}
  /\ varNames = {}
  /\ nodeNames = [n \in 1 .. nNodes |-> <<>>]
  /\ distLits = {}
  /\ preds = {}
  /\ fsms = <<>>
  /\ err = ""

ApiInitOn(nNodes) == ApiTablesInit(nNodes) /\ OtherInit
ApiInit == ApiInitOn(NumNodes)

\* newSolver() followed by newGraph() and NumNodes calls of newNode().
SolverInit ==
  /\ nVars = 0
  /\ edges = <<>>
  /\ reachLits = {}
  /\ clauses = {}
  /\ learnts = {}
  /\ okay = TRUE
  /\ trail = <<>>
  /\ trail_lim = <<>>
  /\ elog = <<>>
  /\ under = {}
  /\ over = {}
  /\ dirty = FALSE
  /\ model = <<>>
  /\ conflict = {}
  /\ has_conflict_clause_from_last_solution = FALSE
  /\ last_solution_optimal = TRUE
  /\ conflict_budget = -1
  /\ propagation_budget = -1
  /\ asynch_interrupt = FALSE
  /\ assumptions = <<>>
  /\ pending = {}
  /\ pc = "idle"
  /\ snap = <<>>
  /\ nSolves = 0
  /\ last = NoCall

Init == SolverInit /\ ApiInit


(* --------------------------- clause database --------------------------- *)
DB == clauses \cup learnts

IsFalseOn(tr, c) == \A l \in c : valueOn(tr, l) = l_False
IsUnitOn(tr, c) ==
  \E l \in c : /\ valueOn(tr, l) = l_Undef
               /\ \A m \in c \ {l} : valueOn(tr, m) = l_False
UnitLit(tr, c) == CHOOSE l \in c : valueOn(tr, l) = l_Undef

BCPPending == \E c \in DB : IsFalseOn(trail, c) \/ IsUnitOn(trail, c)

(* ------------------ graph plugin: reach detectors ---------------------- *)
reachOfVar(v) == CHOOSE r \in reachLits : r.v = v
isReachVar(v) == \E r \in reachLits : r.v = v

\* A smallest set of enabled edges connecting s to t (the witness path).
PathEdges(U, s, t) ==
  CHOOSE P \in SUBSET U :
    /\ HasPath(P, s, t)
    /\ \A Q \in SUBSET U : HasPath(Q, s, t) => Cardinality(Q) >= Cardinality(P)

\* The disabled edges leaving the set reachable from s in the over-view: the
\* s-t cut closest to s.
CutEdges(O, s) ==
  LET R == ReachSet(O, s)
  IN { e \in EdgeIds \ O : edges[e].from \in R /\ edges[e].to \notin R }

\* What the detector of r forces given the two views: a literal, or -1.
Forced(U, O, r) ==
  IF HasPath(U, r.from, r.to) THEN mkLit(r.v, FALSE)
  ELSE IF ~HasPath(O, r.from, r.to) THEN mkLit(r.v, TRUE)
  ELSE -1

\* Variant: the reason names every edge of the graph.
Explain_allEdges(prefix, l) == {l} \cup { edgeLit(e) : e \in EdgeIds }

\* explain(token): the reason clause of theory literal l, built from the
\* assignment that stood when l was enqueued (the trail before it).
Explain(prefix, l) ==
  LET r == reachOfVar(var(l))
  IN IF sign(l)
     THEN {l} \cup { edgeLit(e) : e \in CutEdges(OverOn(prefix), r.from) }
     ELSE {l} \cup { neg(edgeLit(e)) : e \in PathEdges(UnderOn(prefix), r.from, r.to) }

(* ------------- bitvector plugin: comparisons with constants ------------ *)
\* Comparison::geq / Comparison::gt of a constant bitvector against k.
CmpHolds(c) == IF c.op = "geq" THEN bvs[c.bv + 1] >= c.k ELSE bvs[c.bv + 1] > c.k

\* The literals the bitvector plugin's propagate() wants true.
BvWants == { mkLit(c.v, ~CmpHolds(c)) : c \in bvCmps }

(* ---------------------- at-most-one plugins (AMOTheory) ---------------- *)
\* Once a variable of the set is true, every other one is wanted false.
AmoWants(tr, i) ==
  { mkLit(w, TRUE) : w \in { x \in amo[i] :
       \E v \in amo[i] \ {x} : valueOn(tr, mkLit(v, FALSE)) = l_True } }

\* The reason of NOT w: a variable of the same set that was true before it.
AmoExplain(prefix, l) ==
  LET i == CHOOSE j \in 1 .. Len(amo) :
             /\ var(l) \in amo[j]
             /\ \E v \in amo[j] \ {var(l)} : valueOn(prefix, mkLit(v, FALSE)) = l_True
      v == CHOOSE x \in amo[i] \ {var(l)} : valueOn(prefix, mkLit(x, FALSE)) = l_True
  IN {l, mkLit(v, TRUE)}

(* ----------------- the plugins registered after the graph -------------- *)
\* Registration order: the graph theory (newGraph), the bitvector theory
\* (plugin 0 here), then each AMOTheory as it is created (plugin i >= 1).
PluginIds == 0 .. Len(amo)
PluginWants(tr, p) == IF p = 0 THEN BvWants ELSE AmoWants(tr, p)
PluginPending(tr, p) == \E l \in PluginWants(tr, p) : valueOn(tr, l) # l_True
PluginReason(p) == IF p = 0 THEN Reason("bv", {}) ELSE Reason("amo", {})
PluginExplain(p, prefix, l) == IF p = 0 THEN {l} ELSE AmoExplain(prefix, l)

ReasonClause(tr, i) ==
  IF tr[i].reason.t = "clause" THEN tr[i].reason.c
  ELSE IF tr[i].reason.t = "theory" THEN Explain(SubSeq(tr, 1, i - 1), tr[i].lit)
  ELSE IF tr[i].reason.t = "bv" THEN {tr[i].lit}
  ELSE IF tr[i].reason.t = "amo" THEN AmoExplain(SubSeq(tr, 1, i - 1), tr[i].lit)
  ELSE {}

\* The literals the plugin's propagate() wants true, given st.
TheoryWants(st) ==
  { Forced(st.under, st.over, r) : r \in reachLits } \ {-1}

RECURSIVE SortedSeq(_)
SortedSeq(S) ==
  IF S = {} THEN <<>>
  ELSE LET m == CHOOSE x \in S : \A y \in S : x <= y
       IN <<m>> \o SortedSeq(S \ {m})

RECURSIVE EnqueueAll(_, _, _)
EnqueueAll(st, ls, reason) ==
  IF ls = <<>> THEN st
  ELSE EnqueueAll(uncheckedEnqueue(st, Head(ls), reason), Tail(ls), reason)

(* -------------------------- conflict analysis -------------------------- *)
RECURSIVE Resolve(_, _, _)
Resolve(tr, lev, C) ==
  LET cur == { l \in C : LevelOf(tr, var(l)) = lev }
  IN IF Cardinality(cur) <= 1 THEN C
     ELSE LET p == CHOOSE l \in cur :
                     \A m \in cur : PosOf(tr, var(m)) <= PosOf(tr, var(l))
              i == PosOf(tr, var(p))
          IN Resolve(tr, lev, (C \ {p}) \cup (ReasonClause(tr, i) \ {neg(p)}))

\* Solver::analyze: the first-UIP clause, without its root-level literals.
analyze(st, confl) ==
  { l \in Resolve(st.trail, Len(st.lim), confl) : LevelOf(st.trail, var(l)) > 0 }

MaxOf(S) == CHOOSE x \in S : \A y \in S : y <= x

\* Variant: chronological backtracking, one level down from the conflict.
BackjumpLevel_previous(st, learnt) == Len(st.lim) - 1

\* The level to backjump to: the second-highest level of the learned clause.
BackjumpLevel(st, learnt) ==
  LET uip == CHOOSE l \in learnt : LevelOf(st.trail, var(l)) = Len(st.lim)
  IN MaxOf({ LevelOf(st.trail, var(l)) : l \in learnt \ {uip} } \cup {0})

\* Solver::analyzeFinal(p): the assumptions that imply ~p, negated, with p.
RECURSIVE AnalyzeFinalWalk(_, _, _, _, _)
AnalyzeFinalWalk(tr, base, i, seen, out) ==
  IF i <= base THEN out
  ELSE IF var(tr[i].lit) \notin seen
       THEN AnalyzeFinalWalk(tr, base, i - 1, seen, out)
  ELSE IF tr[i].reason.t \in {"decision", "assumption"}
       THEN AnalyzeFinalWalk(tr, base, i - 1, seen, out \cup {neg(tr[i].lit)})
  ELSE AnalyzeFinalWalk(tr, base, i - 1,
         seen \cup { var(m) : m \in { x \in ReasonClause(tr, i) \ {tr[i].lit} :
                                        LevelOf(tr, var(x)) > 0 } },
         out)

analyzeFinal(st, p) ==
  IF Len(st.lim) = 0 THEN {p}
  ELSE AnalyzeFinalWalk(st.trail, st.lim[1], Len(st.trail), {var(p)}, {p})


(* ------------------------------ inputs --------------------------------- *)
\* Edges and reach queries run from a lower to a higher node.
NodePairs == { <<a, b>> \in Nodes \X Nodes : a < b }

\* Clauses a caller passes: up to MaxClauseLen literals over distinct variables.
ClauseInputs ==
  { c \in SUBSET ExtLits : /\ Cardinality(c) <= MaxClauseLen
                        /\ \A l \in c : neg(l) \notin c }

RECURSIVE LitSeqs(_)
LitSeqs(n) ==
  IF n = 0 THEN { <<>> }
  ELSE LET P == LitSeqs(n - 1)
       IN P \cup { Append(q, l) : q \in { x \in P : Len(x) = n - 1 }, l \in ExtLits }

SeqVars(q) == { var(q[i]) : i \in 1 .. Len(q) }
SeqLits(q) == { q[i] : i \in 1 .. Len(q) }
DistinctVarSeqs(n) == { q \in LitSeqs(n) : Cardinality(SeqVars(q)) = Len(q) }

BudgetInputs == (-1) .. MaxBudget

(* --------------------------- API: construction ------------------------- *)
\* Var newVar(S)
NewVar ==
  /\ UNCHANGED apiVars
  /\ pc = "idle"
  /\ nVars' = nVars + 1
  /\ last' = NoCall
  /\ UNCHANGED << edges, reachLits, clauses, learnts, okay, trail, trail_lim,
                  elog, under, over, dirty, model, conflict,
                  has_conflict_clause_from_last_solution, last_solution_optimal,
                  conflict_budget, propagation_budget, asynch_interrupt,
                  assumptions, pending, pc, snap, nSolves >>
  /\ UNCHANGED otherVars

\* Variant: the edge is attached to the variable of the first edge.
NewEdge_sharedVar(from, to) ==
  /\ UNCHANGED << outfile, theoryVars, bookVars >>
  /\ pc = "idle"
  /\ LET v == IF Len(edges) > 0 THEN edges[1].v ELSE nVars
     IN /\ nVars' = nVars + 1
        /\ gnf' = write_out([t |-> "edge", from |-> from, to |-> to,
                              lit |-> dimacs_S(mkLit(v, FALSE))])
        /\ edges' = Append(edges, [from |-> from, to |-> to, v |-> v])
        /\ over' = over \cup {Len(edges) + 1}
        /\ dirty' = TRUE
        /\ last' = NoCall
  /\ UNCHANGED << reachLits, clauses, learnts, okay, trail, trail_lim,
                  elog, under, model, conflict,
                  has_conflict_clause_from_last_solution, last_solution_optimal,
                  conflict_budget, propagation_budget, asynch_interrupt,
                  assumptions, pending, pc, snap, nSolves >>
  /\ UNCHANGED otherVars

\* int newEdge(S, G, from, to, weight): a fresh variable carries the edge.
NewEdge(from, to) ==
  /\ UNCHANGED << outfile, theoryVars, bookVars >>
  /\ pc = "idle"
  /\ LET v == nVars
         l == mkLit(v, FALSE)
     IN /\ nVars' = nVars + 1
        /\ gnf' = write_out([t |-> "edge", from |-> from, to |-> to,
                              lit |-> dimacs_S(mkLit(v, FALSE))])
        /\ edges' = Append(edges, [from |-> from, to |-> to, v |-> v])
        /\ over' = over \cup {Len(edges) + 1}
        /\ dirty' = TRUE
        /\ last' = NoCall
  /\ UNCHANGED << reachLits, clauses, learnts, okay, trail, trail_lim,
                  elog, under, model, conflict,
                  has_conflict_clause_from_last_solution, last_solution_optimal,
                  conflict_budget, propagation_budget, asynch_interrupt,
                  assumptions, pending, pc, snap, nSolves >>
  /\ UNCHANGED otherVars

\* G->hasReach(from, to, -1)
hasReach(from, to) == \E r \in reachLits : r.from = from /\ r.to = to

\* Variant: the predicate is posted for the reverse direction.
Reaches_reversed(from, to) ==
  /\ UNCHANGED << outfile, theoryVars, bookVars >>
  /\ pc = "idle"
  /\ IF hasReach(to, from)
     THEN UNCHANGED << nVars, reachLits, dirty, last, gnf >>
     ELSE /\ nVars' = nVars + 1
          /\ gnf' = write_out([t |-> "reach", from |-> to, to |-> from,
                                lit |-> dimacs_S(mkLit(nVars, FALSE))])
          /\ reachLits' = reachLits \cup {[from |-> to, to |-> from, v |-> nVars]}
          /\ dirty' = TRUE
          /\ last' = NoCall
  /\ UNCHANGED << edges, clauses, learnts, okay, trail, trail_lim,
                  elog, under, over, model, conflict,
                  has_conflict_clause_from_last_solution, last_solution_optimal,
                  conflict_budget, propagation_budget, asynch_interrupt,
                  assumptions, pending, pc, snap, nSolves >>
  /\ UNCHANGED otherVars

\* int reaches(S, G, from, to): one literal per (from, to).
Reaches(from, to) ==
  /\ UNCHANGED << outfile, theoryVars, bookVars >>
  /\ pc = "idle"
  /\ IF hasReach(from, to)
     THEN UNCHANGED << nVars, reachLits, dirty, last, gnf >>
     ELSE /\ nVars' = nVars + 1
          /\ gnf' = write_out([t |-> "reach", from |-> from, to |-> to,
                                lit |-> dimacs_S(mkLit(nVars, FALSE))])
          /\ reachLits' = reachLits \cup {[from |-> from, to |-> to, v |-> nVars]}
          /\ dirty' = TRUE
          /\ last' = NoCall
  /\ UNCHANGED << edges, clauses, learnts, okay, trail, trail_lim,
                  elog, under, over, model, conflict,
                  has_conflict_clause_from_last_solution, last_solution_optimal,
                  conflict_budget, propagation_budget, asynch_interrupt,
                  assumptions, pending, pc, snap, nSolves >>
  /\ UNCHANGED otherVars

\* Solver::addClause(ps) on the engine state st: the result state, the new
\* okay flag, whether the clause is kept, and whether an edge was assigned.
Solver_addClause(st, c) ==
  LET st0 == cancelUntil(st, 0)
      sat == \E l \in c : valueOn(st0.trail, l) = l_True
      rest == { l \in c : valueOn(st0.trail, l) = l_Undef }
      u == CHOOSE l \in rest : TRUE
  IN IF ~okay THEN [st |-> st0, ok |-> FALSE, keep |-> FALSE, edge |-> FALSE]
     ELSE IF sat THEN [st |-> st0, ok |-> TRUE, keep |-> TRUE, edge |-> FALSE]
     ELSE IF rest = {} THEN [st |-> st0, ok |-> FALSE, keep |-> FALSE, edge |-> FALSE]
     ELSE IF Cardinality(rest) = 1
          THEN [st |-> uncheckedEnqueue(st0, u, Reason("clause", c)),
                ok |-> TRUE, keep |-> TRUE, edge |-> isEdgeVar(var(u))]
     ELSE [st |-> st0, ok |-> TRUE, keep |-> TRUE, edge |-> FALSE]

\* bool addClause(S, lits, n_lits)
AddClause(lits) ==
  /\ UNCHANGED << outfile, theoryVars, bookVars >>
  /\ pc = "idle"
  /\ LET clause == { internalLit(l) : l \in lits }
         r == Solver_addClause(Cur, clause)
     IN /\ gnf' = write_out([t |-> "clause", lits |-> { dimacs_S(l) : l \in clause }])
        /\ Install(r.st)
        /\ snap' = SubSeq(snap, 1, Len(r.st.lim))
        /\ okay' = r.ok
        /\ clauses' = IF r.keep THEN clauses \cup {clause} ELSE clauses
        /\ dirty' = (dirty \/ r.edge)
        /\ last' = Call("addClause", IF r.ok THEN 1 ELSE 0, <<>>, <<>>)
  /\ UNCHANGED << nVars, edges, reachLits, learnts, model, conflict,
                  has_conflict_clause_from_last_solution, last_solution_optimal,
                  conflict_budget, propagation_budget, asynch_interrupt,
                  assumptions, pending, pc, nSolves >>
  /\ UNCHANGED otherVars

\* A run of Solver::addClause calls; r carries the engine state, the okay
\* flag, the clauses kept so far and whether an edge was assigned.
RECURSIVE addClauses(_, _)
addClauses(r, cs) ==
  IF cs = <<>> THEN r
  ELSE LET x == IF r.ok THEN Solver_addClause(r.st, Head(cs))
                ELSE [st |-> cancelUntil(r.st, 0), ok |-> FALSE,
                      keep |-> FALSE, edge |-> FALSE]
       IN addClauses([st |-> x.st, ok |-> x.ok,
                      kept |-> IF x.keep THEN r.kept \cup {Head(cs)} ELSE r.kept,
                      edge |-> (r.edge \/ x.edge)],
                     Tail(cs))

(* ---------------------------- API: output file ------------------------- *)
\* The line "%d 0" of the constant-true literal.
trueLine(l) == [t |-> "clause", lits |-> { dimacs_S(l) }]

\* Variant: the file starts with the "c monosat" line alone.
setOutputFile_header == << [t |-> "c monosat"] >>

\* setOutputFile: what it writes to the file it has opened, the
\* "c monosat <args>" line and the unit clause of the constant-true literal
\* when S->True() has made one.
setOutputFile_lines ==
  << [t |-> "c monosat"] >>
    \o (IF const_true # lit_Undef THEN << trueLine(const_true) >> ELSE <<>>)

\* void setOutputFile(S, output) with a file name: the file is opened anew.
SetOutputFile ==
  /\ pc = "idle"
  /\ outfile' = TRUE
  /\ gnf' = setOutputFile_lines
  /\ UNCHANGED << problemVars, learnts, okay, trail, trail_lim, elog, under, over,
                  dirty, runVars, last, theoryVars, bookVars >>
  /\ UNCHANGED otherVars

\* void setOutputFile(S, output) with output null or "": the file that was
\* open is closed, and nothing is written from here on.
SetOutputFile_none ==
  /\ pc = "idle"
  /\ outfile' = FALSE
  /\ gnf' = gnf
  /\ UNCHANGED << problemVars, learnts, okay, trail, trail_lim, elog, under, over,
                  dirty, runVars, last, theoryVars, bookVars >>
  /\ UNCHANGED otherVars

\* Variant: every call writes the unit clause.
true_lit_needs_record_always == TRUE

\* true_lit: needs_record, read before S->True() is called.
true_lit_needs_record == const_true = lit_Undef

\* int true_lit(S). S->True() makes the literal on its first call: a new
\* variable and its unit clause, kept by the solver and not traced by it.
True_lit ==
  /\ pc = "idle"
  /\ LET made == const_true # lit_Undef
         l == IF made THEN const_true ELSE mkLit(nVars, FALSE)
         r == Solver_addClause(Cur, {l})
     IN /\ const_true' = l
        /\ nVars' = IF made THEN nVars ELSE nVars + 1
        /\ IF made
           THEN UNCHANGED << clauses, okay, trail, trail_lim, elog, under, over,
                             snap >>
           ELSE /\ Install(r.st)
                /\ snap' = SubSeq(snap, 1, Len(r.st.lim))
                /\ okay' = r.ok
                /\ clauses' = IF r.keep THEN clauses \cup {{l}} ELSE clauses
        /\ gnf' = IF true_lit_needs_record THEN write_out(trueLine(l)) ELSE gnf
        /\ last' = Call("true_lit", externalLit(l), <<>>, <<>>)
  /\ UNCHANGED << edges, reachLits, learnts, dirty, model, conflict,
                  has_conflict_clause_from_last_solution, last_solution_optimal,
                  conflict_budget, propagation_budget, asynch_interrupt,
                  assumptions, pending, pc, nSolves, outfile, theoryVars,
                  bookVars, bvMoreVars, edgeSets, capacity, proc, heap, call,
                  reader, optimization_objectives, bv_theory, graphs >>

(* ---------------------------- API: bitvectors -------------------------- *)
BvVals == 0 .. (2 ^ BvWidth - 1)
BvIds == 0 .. (Len(bvs) - 1)

\* int newBitvector_const(S, bv, bvWidth, constval)
NewBitvector_const(constval) ==
  /\ pc = "idle"
  /\ bvs' = Append(bvs, constval)
  /\ gnf' = write_out([t |-> "bv const", id |-> Len(bvs), width |-> BvWidth,
                        val |-> constval])
  /\ last' = Call("newBitvector_const", Len(bvs), <<constval>>, <<>>)
  /\ UNCHANGED << nVars, clauses, learnts, okay, trail, trail_lim, graphVars,
                  runVars, outfile, hidden, amo, bvCmps, bookVars >>
  /\ UNCHANGED otherVars

\* bv->newComparison(op, bvID, weight): the comparison's variable, an
\* existing one when the same comparison was built before.
newComparison(cmps, n, op, bvID, weight) ==
  LET hit == { c \in cmps : c.op = op /\ c.bv = bvID /\ c.k = weight }
  IN IF hit # {} THEN [v |-> (CHOOSE c \in hit : TRUE).v, n |-> n, cmps |-> cmps]
     ELSE [v |-> n, n |-> n + 1,
           cmps |-> cmps \cup {[op |-> op, bv |-> bvID, k |-> weight, v |-> n]}]

\* The line of newBVComparison_const_geq / _gt.
bvConstLine(op, l, bvID, weight) ==
  [t |-> "bv const op", op |-> op, lit |-> dimacs_S(l), bv |-> bvID, k |-> weight]

\* int newBVComparison_const_geq(S, bv, bvID, weight)
NewBVComparison_const_geq(bvID, weight) ==
  /\ pc = "idle"
  /\ LET r == newComparison(bvCmps, nVars, "geq", bvID, weight)
         l == mkLit(r.v, FALSE)
     IN /\ nVars' = r.n
        /\ bvCmps' = r.cmps
        /\ gnf' = write_out(bvConstLine(">=", l, bvID, weight))
        /\ last' = Call("newBVComparison_const_geq", externalLit(l),
                         <<bvID, weight>>, <<>>)
  /\ UNCHANGED << clauses, learnts, okay, trail, trail_lim, graphVars,
                  runVars, outfile, hidden, amo, bvs, bookVars >>
  /\ UNCHANGED otherVars

\* int newBVComparison_const_gt(S, bv, bvID, weight)
NewBVComparison_const_gt(bvID, weight) ==
  /\ pc = "idle"
  /\ LET r == newComparison(bvCmps, nVars, "gt", bvID, weight)
         l == mkLit(r.v, FALSE)
     IN /\ nVars' = r.n
        /\ bvCmps' = r.cmps
        /\ gnf' = write_out(bvConstLine(">", l, bvID, weight))
        /\ last' = Call("newBVComparison_const_gt", externalLit(l),
                         <<bvID, weight>>, <<>>)
  /\ UNCHANGED << clauses, learnts, okay, trail, trail_lim, graphVars,
                  runVars, outfile, hidden, amo, bvs, bookVars >>
  /\ UNCHANGED otherVars

\* The three clauses that define c as (a AND NOT b).
eqClauses(a, b, c) == << {a, neg(c)}, {neg(b), neg(c)}, {c, neg(a), b} >>

\* newBVComparison_const_eq as called under the name op, which returns c or,
\* for newBVComparison_const_neq, its negation: the two comparison calls
\* write their lines; the fresh literal c and its clauses go to the solver
\* directly.
constEq(op, negated, bvID, weight) ==
  /\ pc = "idle"
  /\ LET ra == newComparison(bvCmps, nVars, "geq", bvID, weight)
         rb == newComparison(ra.cmps, ra.n, "gt", bvID, weight)
         a == mkLit(ra.v, FALSE)
         b == mkLit(rb.v, FALSE)
         c == mkLit(rb.n, FALSE)
         r == addClauses([st |-> Cur, ok |-> okay, kept |-> {}, edge |-> FALSE],
                         eqClauses(a, b, c))
     IN /\ nVars' = rb.n + 1
        /\ bvCmps' = rb.cmps
        /\ gnf' = IF outfile
                  THEN gnf \o << bvConstLine(">=", a, bvID, weight),
                                 bvConstLine(">", b, bvID, weight) >>
                  ELSE gnf
        /\ Install(r.st)
        /\ snap' = SubSeq(snap, 1, Len(r.st.lim))
        /\ okay' = r.ok
        /\ clauses' = clauses \cup r.kept
        /\ dirty' = (dirty \/ r.edge)
        /\ last' = Call(op, externalLit(IF negated THEN neg(c) ELSE c),
                         <<bvID, weight>>, <<>>)
  /\ UNCHANGED << edges, reachLits, learnts, budgetVars, resultVars,
                  asynch_interrupt, assumptions, pending, pc, nSolves,
                  outfile, hidden, amo, bvs, bookVars >>
  /\ UNCHANGED otherVars

\* int newBVComparison_const_eq(S, bv, bvID, weight)
NewBVComparison_const_eq(bvID, weight) ==
  constEq("newBVComparison_const_eq", FALSE, bvID, weight)

\* int newBVComparison_const_neq(S, bv, bvID, weight)
NewBVComparison_const_neq(bvID, weight) ==
  constEq("newBVComparison_const_neq", TRUE, bvID, weight)

(* -------------- API: bitvectors of bits, compared to each other -------- *)
\* int newBitvector_anon(S, bv, bvWidth): a bitvector without explicit bits.
NewBitvector_anon ==
  /\ pc = "idle"
  /\ bvs' = Append(bvs, -1)
  /\ gnf' = write_out([t |-> "bv anon", id |-> Len(bvs), width |-> BvWidth])
  /\ last' = Call("newBitvector_anon", Len(bvs), <<>>, <<>>)
  /\ UNCHANGED << nVars, clauses, learnts, okay, trail, trail_lim, graphVars,
                  runVars, outfile, hidden, amo, bvCmps, bookVars >>
  /\ UNCHANGED otherVars

\* int newBitvector(S, bv, bits, n_bits): the numbers in bits are handed to
\* the theory as they are.
NewBitvector(bits) ==
  /\ pc = "idle"
  /\ bvs' = Append(bvs, -1)
  /\ bvBits' = bvBits \cup {[bv |-> Len(bvs), bits |-> bits]}
  /\ gnf' = write_out([t |-> "bv", id |-> Len(bvs),
                        lits |-> [i \in 1 .. Len(bits) |->
                                    dimacs_S(mkLit(bits[i], FALSE))]])
  /\ last' = Call("newBitvector", Len(bvs), <<bits>>, <<>>)
  /\ UNCHANGED << nVars, clauses, learnts, okay, trail, trail_lim, graphVars,
                  runVars, outfile, hidden, amo, bvCmps, bookVars >>
  /\ UNCHANGED << bvBvCmps, bvOps, edgeSets, capacity, procVars >>

\* bv->getBits(bvID): the explicit bits, none for a constant or an anonymous
\* bitvector.
getBits(bvID) ==
  IF \E b \in bvBits : b.bv = bvID
  THEN (CHOOSE b \in bvBits : b.bv = bvID).bits
  ELSE <<>>

\* bv->newComparisonBV(op, bvID, compareID): the comparison's variable, an
\* existing one when the same comparison was built before.
newComparisonBV(cmps, n, op, bvID, compareID) ==
  LET hit == { c \in cmps : c.op = op /\ c.bv = bvID /\ c.other = compareID }
  IN IF hit # {} THEN [v |-> (CHOOSE c \in hit : TRUE).v, n |-> n, cmps |-> cmps]
     ELSE [v |-> n, n |-> n + 1,
           cmps |-> cmps \cup {[op |-> op, bv |-> bvID, other |-> compareID, v |-> n]}]

\* The line of newBVComparison_bv_geq / _gt.
bvBvLine(op, l, bvID, compareID) ==
  [t |-> "bv op", op |-> op, lit |-> dimacs_S(l), bv |-> bvID, other |-> compareID]

\* int newBVComparison_bv_geq(S, bv, bvID, compareID)
NewBVComparison_bv_geq(bvID, compareID) ==
  /\ pc = "idle"
  /\ LET r == newComparisonBV(bvBvCmps, nVars, "geq", bvID, compareID)
         l == mkLit(r.v, FALSE)
     IN /\ nVars' = r.n
        /\ bvBvCmps' = r.cmps
        /\ gnf' = write_out(bvBvLine(">=", l, bvID, compareID))
        /\ last' = Call("newBVComparison_bv_geq", externalLit(l),
                         <<bvID, compareID>>, <<>>)
  /\ UNCHANGED << clauses, learnts, okay, trail, trail_lim, graphVars,
                  runVars, outfile, theoryVars, bookVars >>
  /\ UNCHANGED << bvBits, bvOps, edgeSets, capacity, procVars >>

\* int newBVComparison_bv_gt(S, bv, bvID, compareID)
NewBVComparison_bv_gt(bvID, compareID) ==
  /\ pc = "idle"
  /\ LET r == newComparisonBV(bvBvCmps, nVars, "gt", bvID, compareID)
         l == mkLit(r.v, FALSE)
     IN /\ nVars' = r.n
        /\ bvBvCmps' = r.cmps
        /\ gnf' = write_out(bvBvLine(">", l, bvID, compareID))
        /\ last' = Call("newBVComparison_bv_gt", externalLit(l),
                         <<bvID, compareID>>, <<>>)
  /\ UNCHANGED << clauses, learnts, okay, trail, trail_lim, graphVars,
                  runVars, outfile, theoryVars, bookVars >>
  /\ UNCHANGED << bvBits, bvOps, edgeSets, capacity, procVars >>

\* Variant: the bits are compared as far as the shorter bitvector goes.
bitClauses_prefix(bits1, bits2, c) ==
  LET n == IF Len(bits1) < Len(bits2) THEN Len(bits1) ELSE Len(bits2)
      two(i) == << {mkLit(bits1[i], FALSE), mkLit(bits2[i], TRUE), neg(c)},
                   {mkLit(bits1[i], TRUE), mkLit(bits2[i], FALSE), neg(c)} >>
      F[i \in 0 .. n] == IF i = 0 THEN <<>> ELSE F[i - 1] \o two(i)
  IN F[n]

\* The bit-level clauses of newBVComparison_bv_eq: each bit is equal, or c is
\* false; none unless the two bitvectors have as many bits.
bitClauses(bits1, bits2, c) ==
  LET two(i) == << {mkLit(bits1[i], FALSE), mkLit(bits2[i], TRUE), neg(c)},
                   {mkLit(bits1[i], TRUE), mkLit(bits2[i], FALSE), neg(c)} >>
      F[i \in 0 .. Len(bits1)] == IF i = 0 THEN <<>> ELSE F[i - 1] \o two(i)
  IN IF Len(bits1) = Len(bits2) THEN F[Len(bits1)] ELSE <<>>

\* newBVComparison_bv_eq as called under the name op, which returns c or, for
\* newBVComparison_bv_neq, its negation.
bvEq(op, negated, bvID, compareID) ==
  /\ pc = "idle"
  /\ LET ra == newComparisonBV(bvBvCmps, nVars, "geq", bvID, compareID)
         rb == newComparisonBV(ra.cmps, ra.n, "gt", bvID, compareID)
         a == mkLit(ra.v, FALSE)
         b == mkLit(rb.v, FALSE)
         c == mkLit(rb.n, FALSE)
         r == addClauses([st |-> Cur, ok |-> okay, kept |-> {}, edge |-> FALSE],
                         eqClauses(a, b, c)
                           \o bitClauses(getBits(bvID), getBits(compareID), c))
     IN /\ nVars' = rb.n + 1
        /\ bvBvCmps' = rb.cmps
        /\ gnf' = IF outfile
                  THEN gnf \o << bvBvLine(">=", a, bvID, compareID),
                                 bvBvLine(">", b, bvID, compareID) >>
                  ELSE gnf
        /\ Install(r.st)
        /\ snap' = SubSeq(snap, 1, Len(r.st.lim))
        /\ okay' = r.ok
        /\ clauses' = clauses \cup r.kept
        /\ dirty' = (dirty \/ r.edge)
        /\ last' = Call(op, externalLit(IF negated THEN neg(c) ELSE c),
                         <<bvID, compareID>>, <<>>)
  /\ UNCHANGED << edges, reachLits, learnts, budgetVars, resultVars,
                  asynch_interrupt, assumptions, pending, pc, nSolves,
                  outfile, theoryVars, bookVars >>
  /\ UNCHANGED << bvBits, bvOps, edgeSets, capacity, procVars >>

\* int newBVComparison_bv_eq(S, bv, bvID, compareID)
NewBVComparison_bv_eq(bvID, compareID) ==
  bvEq("newBVComparison_bv_eq", FALSE, bvID, compareID)

\* int newBVComparison_bv_neq(S, bv, bvID, compareID)
NewBVComparison_bv_neq(bvID, compareID) ==
  bvEq("newBVComparison_bv_neq", TRUE, bvID, compareID)

(* ----------------------- API: bitvector operators ---------------------- *)
\* The argument lists a caller passes: external literals.
MaxArgs == 2
ArgInputs == UNION { [1 .. n -> ExtLits] : n \in 1 .. MaxArgs }

\* void bv_popcount(S, bv, args, n_args, resultID)
Bv_popcount(args, resultID) ==
  /\ pc = "idle"
  /\ LET m_args == [i \in 1 .. Len(args) |-> var(internalLit(args[i]))]
     IN IF \E i \in 1 .. Len(args) : sign(internalLit(args[i]))
        THEN /\ err' = "runtime_error"
             /\ UNCHANGED << gnf, bvOps >>
        ELSE /\ err' = ""
             /\ gnf' = write_out([t |-> "bv popcount", result |-> resultID,
                                   lits |-> [i \in 1 .. Len(args) |->
                                               dimacs_S(mkLit(m_args[i], FALSE))]])
             /\ bvOps' = bvOps \cup {[op |-> "popcount", result |-> resultID,
                                      args |-> m_args]}
  /\ last' = Call("bv_popcount", 0, <<args, resultID>>, <<>>)
  /\ UNCHANGED << problemVars, learnts, okay, trail, trail_lim, elog, under, over,
                  dirty, runVars, outfile, theoryVars, varNames, nodeNames,
                  distLits, preds, fsms, bvBits, bvBvCmps, edgeSets, capacity,
                  procVars >>

\* Variant: the line is written before the arguments are looked at.
Bv_unary_lineFirst(args, resultID) ==
  /\ pc = "idle"
  /\ LET m_args == [i \in 1 .. Len(args) |-> internalLit(args[i])]
     IN /\ gnf' = write_out([t |-> "bv unary", result |-> resultID,
                              lits |-> [i \in 1 .. Len(args) |-> dimacs_S(m_args[i])]])
        /\ IF \/ \E i \in 1 .. Len(args) : sign(m_args[i])
              \/ \E i \in 2 .. Len(args) : var(m_args[i]) # var(m_args[i - 1]) + 1
           THEN /\ err' = "runtime_error"
                /\ UNCHANGED bvOps
           ELSE /\ err' = ""
                /\ bvOps' = bvOps \cup {[op |-> "unary", result |-> resultID,
                                         args |-> [i \in 1 .. Len(args) |->
                                                     var(m_args[i])]]}
  /\ last' = Call("bv_unary", 0, <<args, resultID>>, <<>>)
  /\ UNCHANGED << problemVars, learnts, okay, trail, trail_lim, elog, under, over,
                  dirty, runVars, outfile, theoryVars, varNames, nodeNames,
                  distLits, preds, fsms, bvBits, bvBvCmps, edgeSets, capacity,
                  procVars >>

\* void bv_unary(S, bv, args, n_args, resultID)
Bv_unary(args, resultID) ==
  /\ pc = "idle"
  /\ LET m_args == [i \in 1 .. Len(args) |-> internalLit(args[i])]
     IN IF \/ \E i \in 1 .. Len(args) : sign(m_args[i])
           \/ \E i \in 2 .. Len(args) : var(m_args[i]) # var(m_args[i - 1]) + 1
        THEN /\ err' = "runtime_error"
             /\ UNCHANGED << gnf, bvOps >>
        ELSE /\ err' = ""
             /\ gnf' = write_out([t |-> "bv unary", result |-> resultID,
                                   lits |-> [i \in 1 .. Len(args) |->
                                               dimacs_S(m_args[i])]])
             /\ bvOps' = bvOps \cup {[op |-> "unary", result |-> resultID,
                                      args |-> [i \in 1 .. Len(args) |->
                                                  var(m_args[i])]]}
  /\ last' = Call("bv_unary", 0, <<args, resultID>>, <<>>)
  /\ UNCHANGED << problemVars, learnts, okay, trail, trail_lim, elog, under, over,
                  dirty, runVars, outfile, theoryVars, varNames, nodeNames,
                  distLits, preds, fsms, bvBits, bvBvCmps, edgeSets, capacity,
                  procVars >>

\* What S->unmap may give for a variable number the solver has not
\* allocated (a read past the end of the map): any DIMACS variable number.
AnyDimacs == 1 .. (2 * nVars + 2)

\* bv_ite: the number it writes for the condition, dimacs(S, mkLit(condition_lit)).
\* mkLit(Var) makes the positive literal of the internal variable whose
\* number is the integer condition_lit.
bv_ite_dimacs(condition_lit) ==
  IF condition_lit \in Vars THEN { dimacs_S(mkLit(condition_lit, FALSE)) }
  ELSE AnyDimacs

\* void bv_ite(S, bv, condition_lit, bvThenID, bvElseID, bvResultID)
Bv_ite(condition_lit, bvThenID, bvElseID, bvResultID) ==
  /\ pc = "idle"
  /\ LET l == internalLit(condition_lit)
     IN /\ \E d \in bv_ite_dimacs(condition_lit) :
             gnf' = write_out([t |-> "bv_ite", cond |-> d, then |-> bvThenID,
                               else |-> bvElseID, result |-> bvResultID])
        /\ bvOps' = bvOps \cup {[op |-> "ite", result |-> bvResultID,
                                 args |-> << l, bvThenID, bvElseID >>]}
  /\ err' = ""
  /\ last' = Call("bv_ite", 0, << condition_lit, bvThenID, bvElseID, bvResultID >>,
                  <<>>)
  /\ UNCHANGED << problemVars, learnts, okay, trail, trail_lim, elog, under, over,
                  dirty, runVars, outfile, theoryVars, varNames, nodeNames,
                  distLits, preds, fsms, bvBits, bvBvCmps, edgeSets, capacity,
                  procVars >>

(* -------------------- the MaxFlow object of a detector ----------------- *)
\* MaxFlow.h declares the interface; its implementations (Edmonds-Karp and
\* the others) share this behaviour. The object keeps one capacity per edge
\* (u, w); an edge whose literal is false in the view has capacity 0.
MaxFlowNode == 3
MaxCap == 2
FlowNodes == 0 .. MaxFlowNode
Cap(cap, u, w) == IF << u, w >> \in DOMAIN cap THEN cap[<< u, w >>] ELSE 0
NoFlow(cap) == [p \in DOMAIN cap |-> 0]
Flow(f, u, w) == IF << u, w >> \in DOMAIN f THEN f[<< u, w >>] ELSE 0
\* What can still be pushed from u to w: unused capacity, or flow of the
\* opposite edge to take back.
Residual(cap, f, u, w) == (Cap(cap, u, w) - Flow(f, u, w)) + Flow(f, w, u)

RECURSIVE ResidualClosure(_, _, _, _)
ResidualClosure(cap, f, R, n) ==
  IF n = 0 THEN R
  ELSE LET R2 == R \cup { w \in FlowNodes :
                            \E u \in R : Residual(cap, f, u, w) > 0 }
       IN IF R2 = R THEN R ELSE ResidualClosure(cap, f, R2, n - 1)
\* Variant: the nodes reached over edges of positive capacity, used or not.
ResidualReach_unused(cap, f, s) == ResidualClosure(cap, NoFlow(cap), {s}, MaxFlowNode + 1)
ResidualReach(cap, f, s) == ResidualClosure(cap, f, {s}, MaxFlowNode + 1)

\* The augmenting paths from s to t: simple paths of positive residual.
AugmentingPaths(cap, f, s, t) ==
  { p \in UNION { [1 .. n -> FlowNodes] : n \in 2 .. (MaxFlowNode + 1) } :
      /\ p[1] = s /\ p[Len(p)] = t
      /\ \A i, j \in 1 .. Len(p) : p[i] = p[j] => i = j
      /\ \A i \in 1 .. (Len(p) - 1) : Residual(cap, f, p[i], p[i + 1]) > 0 }
\* One unit more along p: taken back from the opposite edge where it
\* carries flow, added to the edge otherwise.
Augment(f, p) ==
  LET steps == { << p[i], p[i + 1] >> : i \in 1 .. (Len(p) - 1) }
  IN [e \in DOMAIN f |->
        IF << e[2], e[1] >> \in steps /\ f[e] > 0 THEN f[e] - 1
        ELSE IF e \in steps /\ Flow(f, e[2], e[1]) = 0 THEN f[e] + 1
        ELSE f[e]]
\* Breadth first: a shortest augmenting path, until there is none.
RECURSIVE MaximumFlow(_, _, _, _)
MaximumFlow(cap, f, s, t) ==
  LET ps == AugmentingPaths(cap, f, s, t)
  IN IF ps = {} THEN f
     ELSE MaximumFlow(cap, Augment(f, CHOOSE p \in ps :
                                        \A q \in ps : Len(p) <= Len(q)), s, t)
RECURSIVE SumOver(_, _)
SumOver(f, S) ==
  IF S = {} THEN 0
  ELSE LET e == CHOOSE x \in S : TRUE IN f[e] + SumOver(f, S \ {e})
FlowValue(f, s) ==
  SumOver(f, { e \in DOMAIN f : e[1] = s }) - SumOver(f, { e \in DOMAIN f : e[2] = s })
\* int maxFlow(int s, int t)
maxFlow(cap, s, t) == FlowValue(MaximumFlow(cap, NoFlow(cap), s, t), s)
\* Variant: the cut is every edge out of s.
minCut_atSource(cap, s, t) ==
  [value |-> maxFlow(cap, s, t),
   cut |-> { e \in DOMAIN cap : cap[e] > 0 /\ e[1] = s }]
\* int minCut(int s, int t, vec<Edge> & cut): the flow's value, and in cut
\* the edges from the nodes the residual graph reaches from s to the others.
minCut(cap, s, t) ==
  LET f == MaximumFlow(cap, NoFlow(cap), s, t)
      R == ResidualReach(cap, f, s)
  IN [value |-> FlowValue(f, s),
      cut |-> { e \in DOMAIN cap : cap[e] > 0 /\ e[1] \in R /\ e[2] \notin R }]
RECURSIVE EdgeSeq(_)
EdgeSeq(S) ==
  IF S = {} THEN <<>>
  ELSE LET e == CHOOSE x \in S : \A y \in S : x[1] < y[1] \/ (x[1] = y[1] /\ x[2] <= y[2])
       IN << e >> \o EdgeSeq(S \ {e})

\* The reason a detector gives when the flow from s to t in its view is too
\* small (for a reach predicate: when it is 0): the edges absent from the
\* view that lead from the source side of the cut to the other side.
FlowReason(cap, s, t) ==
  LET R == ResidualReach(cap, MaximumFlow(cap, NoFlow(cap), s, t), s)
  IN { e \in DOMAIN cap : cap[e] = 0 /\ e[1] \in R /\ e[2] \notin R }

flowRest == << problemVars, learnts, okay, trail, trail_lim, elog, under, over,
               dirty, runVars, apiVars, bvMoreVars, edgeSets, procVars >>
\* void setCapacity(int u, int w, int c)
SetCapacity(u, w, c) ==
  /\ pc = "idle"
  /\ capacity' = [p \in DOMAIN capacity \cup {<< u, w >>} |->
                    IF p = << u, w >> THEN c ELSE capacity[p]]
  /\ last' = Call("setCapacity", 0, <<>>, <<>>)
  /\ UNCHANGED flowRest
\* void setAllEdgeCapacities(int c)
SetAllEdgeCapacities(c) ==
  /\ pc = "idle"
  /\ capacity' = [p \in DOMAIN capacity |-> c]
  /\ last' = Call("setAllEdgeCapacities", 0, <<>>, <<>>)
  /\ UNCHANGED flowRest
MaxFlow(s, t) ==
  /\ pc = "idle"
  /\ last' = Call("maxFlow", maxFlow(capacity, s, t), << s, t >>, <<>>)
  /\ UNCHANGED << capacity, flowRest >>
MinCut(s, t) ==
  /\ pc = "idle"
  /\ LET r == minCut(capacity, s, t)
     IN last' = Call("minCut", r.value, << s, t >>, EdgeSeq(r.cut))
  /\ UNCHANGED << capacity, flowRest >>

(* ------------------------ API: more graph predicates ------------------- *)
\* The graph theory's tables of posted predicates: G->hasReach(from, to,
\* within) with within = -1 for plain reachability, and G->hasReachBackward,
\* hasOnPath, hasDistance, hasMaxflow, hasAcyclic for the other kinds.
hasReachWithin(from, to, within) ==
  IF within = -1 THEN hasReach(from, to)
  ELSE \E d \in distLits : d.from = from /\ d.to = to /\ d.within = within
reachWithinVar(from, to, within) ==
  IF within = -1
  THEN (CHOOSE r \in reachLits : r.from = from /\ r.to = to).v
  ELSE (CHOOSE d \in distLits : d.from = from /\ d.to = to /\ d.within = within).v
hasPred(kind, args) == \E p \in preds : p.kind = kind /\ p.args = args
predVar(kind, args) == (CHOOSE p \in preds : p.kind = kind /\ p.args = args).v

\* The calls below differ in the table they look up and the line they write.
\* G->reaches(from, to, var_Undef, within) behind a G->hasReach test:
\* the literal of the detector for (from, to, within), made if there is none.
postReach(op, from, to, within, steps, line) ==
  /\ pc = "idle"
  /\ IF hasReachWithin(from, to, within)
     THEN /\ last' = Call(op, externalLit(mkLit(reachWithinVar(from, to, within), FALSE)),
                          <<from, to, steps>>, <<>>)
          /\ UNCHANGED << nVars, reachLits, distLits, gnf, dirty >>
     ELSE /\ nVars' = nVars + 1
          /\ IF within = -1
             THEN /\ reachLits' = reachLits \cup {[from |-> from, to |-> to, v |-> nVars]}
                  /\ UNCHANGED distLits
             ELSE /\ distLits' = distLits \cup
                       {[from |-> from, to |-> to, within |-> within, v |-> nVars]}
                  /\ UNCHANGED reachLits
          /\ gnf' = write_out([t |-> line, from |-> from, to |-> to,
                                lit |-> dimacs_S(mkLit(nVars, FALSE)), k |-> steps])
          /\ dirty' = TRUE
          /\ last' = Call(op, externalLit(mkLit(nVars, FALSE)), <<from, to, steps>>, <<>>)
  /\ UNCHANGED << edges, clauses, learnts, okay, trail, trail_lim, elog, under, over,
                  runVars, outfile, theoryVars, varNames, nodeNames, preds, fsms, err >>
  /\ UNCHANGED otherVars

\* Variant: a detector and a variable are made at every call.
postPred_fresh(op, kind, args, line) ==
  /\ pc = "idle"
  /\ nVars' = nVars + 1
  /\ preds' = preds \cup {[kind |-> kind, args |-> args, v |-> nVars]}
  /\ gnf' = write_out([t |-> line, args |-> args, lit |-> dimacs_S(mkLit(nVars, FALSE))])
  /\ dirty' = TRUE
  /\ last' = Call(op, externalLit(mkLit(nVars, FALSE)), args, <<>>)
  /\ UNCHANGED << edges, reachLits, clauses, learnts, okay, trail, trail_lim, elog,
                  under, over, runVars, outfile, theoryVars, varNames, nodeNames,
                  distLits, fsms, err >>
  /\ UNCHANGED otherVars

\* A predicate of another kind, behind its G->has... test.
postPred(op, kind, args, line) ==
  /\ pc = "idle"
  /\ IF hasPred(kind, args)
     THEN /\ last' = Call(op, externalLit(mkLit(predVar(kind, args), FALSE)), args, <<>>)
          /\ UNCHANGED << nVars, preds, gnf, dirty >>
     ELSE /\ nVars' = nVars + 1
          /\ preds' = preds \cup {[kind |-> kind, args |-> args, v |-> nVars]}
          /\ gnf' = write_out([t |-> line, args |-> args,
                                lit |-> dimacs_S(mkLit(nVars, FALSE))])
          /\ dirty' = TRUE
          /\ last' = Call(op, externalLit(mkLit(nVars, FALSE)), args, <<>>)
  /\ UNCHANGED << edges, reachLits, clauses, learnts, okay, trail, trail_lim, elog,
                  under, over, runVars, outfile, theoryVars, varNames, nodeNames,
                  distLits, fsms, err >>
  /\ UNCHANGED otherVars

\* A predicate whose constructor writes its line in both branches of the
\* G->has... test.
postPred_traced(op, kind, args, line) ==
  /\ pc = "idle"
  /\ IF hasPred(kind, args)
     THEN /\ last' = Call(op, externalLit(mkLit(predVar(kind, args), FALSE)), args, <<>>)
          /\ gnf' = write_out([t |-> line, args |-> args,
                                lit |-> dimacs_S(mkLit(predVar(kind, args), FALSE))])
          /\ UNCHANGED << nVars, preds, dirty >>
     ELSE /\ nVars' = nVars + 1
          /\ preds' = preds \cup {[kind |-> kind, args |-> args, v |-> nVars]}
          /\ gnf' = write_out([t |-> line, args |-> args,
                                lit |-> dimacs_S(mkLit(nVars, FALSE))])
          /\ dirty' = TRUE
          /\ last' = Call(op, externalLit(mkLit(nVars, FALSE)), args, <<>>)
  /\ UNCHANGED << edges, reachLits, clauses, learnts, okay, trail, trail_lim, elog,
                  under, over, runVars, outfile, theoryVars, varNames, nodeNames,
                  distLits, fsms, err >>
  /\ UNCHANGED otherVars

\* int reachesBackward(S, G, from, to)
ReachesBackward(from, to) ==
  postPred("reachesBackward", "reach_backward", <<from, to>>, "reach_backward")

\* int onPath(S, G, nodeOnPath, from, to)
OnPath(nodeOnPath, from, to) ==
  postPred("onPath", "on_path", <<nodeOnPath, from, to>>, "on_path")

\* int shortestPathUnweighted_lt_const(S, G, from, to, steps)
ShortestPathUnweighted_lt_const(from, to, steps) ==
  postReach("shortestPathUnweighted_lt_const", from, to, steps - 1, steps, "distance_lt")

\* int shortestPathUnweighted_leq_const(S, G, from, to, steps)
ShortestPathUnweighted_leq_const(from, to, steps) ==
  postReach("shortestPathUnweighted_leq_const", from, to, steps, steps, "distance_leq")

\* int shortestPath_lt_const(S, G, from, to, dist)
ShortestPath_lt_const(from, to, dist) ==
  postPred("shortestPath_lt_const", "distance", <<from, to, dist, FALSE>>,
           "weighted_distance_lt")

\* int shortestPath_leq_const(S, G, from, to, dist)
ShortestPath_leq_const(from, to, dist) ==
  postPred("shortestPath_leq_const", "distance", <<from, to, dist, TRUE>>,
           "weighted_distance_leq")

\* int shortestPathUnweighted_lt_bv(S, G, from, to, bvID): the detector is
\* the one of G->hasDistanceBV / G->distanceBV(from, to, bv, false).
ShortestPathUnweighted_lt_bv(from, to, bvID) ==
  postPred("shortestPathUnweighted_lt_bv", "distance_bv", <<from, to, bvID, FALSE>>,
           "distance_bv_lt")

\* int shortestPath_lt_bv(S, G, from, to, bvID)
ShortestPath_lt_bv(from, to, bvID) ==
  postPred_traced("shortestPath_lt_bv", "distance_bv", <<from, to, bvID, FALSE>>,
                  "weighted_distance_bv_lt")

\* int shortestPath_leq_bv(S, G, from, to, bvID)
ShortestPath_leq_bv(from, to, bvID) ==
  postPred("shortestPath_leq_bv", "distance_bv", <<from, to, bvID, TRUE>>,
           "weighted_distance_bv_leq")

\* int maximumFlow_geq(S, G, source, sink, weight)
MaximumFlow_geq(source, sink, weight) ==
  postPred("maximumFlow_geq", "maxflow", <<source, sink, weight, TRUE>>,
           "maximum_flow_geq")

\* int maximumFlow_gt(S, G, source, sink, weight)
MaximumFlow_gt(source, sink, weight) ==
  postPred("maximumFlow_gt", "maxflow", <<source, sink, weight, FALSE>>,
           "maximum_flow_gt")

\* int acyclic_undirected(S, G)
Acyclic_undirected == postPred("acyclic_undirected", "acyclic", <<FALSE>>, "forest")

\* int acyclic_directed(S, G)
Acyclic_directed == postPred("acyclic_directed", "acyclic", <<TRUE>>, "acyclic")

(* -------------------------------- API: names --------------------------- *)
\* A name is the sequence of its characters' codes; a C string holds no
\* character 0, so << 0 >> stands for the null pointer.
nullptr == << 0 >>
strlen(name) == Len(name)
isascii(c) == c \in 0 .. 127
isprint(c) == c \in 32 .. 126
isspace(c) == c \in {9, 10, 11, 12, 13, 32}
IllegalChar(c) == ~isascii(c) \/ ~isprint(c) \/ isspace(c)
HasIllegalChar(name) == \E i \in 1 .. Len(name) : IllegalChar(name[i])

\* The names a caller passes: none, the empty one, two proper names, and
\* names with a space, a control character and a non-ASCII character.
NameInputs ==
  { nullptr, <<>>, <<65>>, <<66, 65>>, <<32>>, <<65, 7>>, <<200>>, <<65, 32>> }

\* S->hasVariable(name)
hasVariable(name) == \E n \in varNames : n.name = name

\* Solver::setVariableName(v, name): what the engine may do with the name.
\* The empty name clears; a name another variable carries is refused; of a
\* name with an illegal character the specification does not say whether
\* the engine stores or refuses it.
setNameOutcomes(taken, name) ==
  IF name = <<>> THEN {"stored"}
  ELSE IF name \in taken THEN {"refused"}
  ELSE IF HasIllegalChar(name) THEN {"stored", "refused"}
  ELSE {"stored"}

\* void setVariableName(S, variable, varname)
SetVariableName(variable, varname) ==
  /\ pc = "idle"
  /\ LET v == internalVar(variable)
         others == { n \in varNames : n.v # v }
         name == IF varname = nullptr THEN <<>> ELSE varname
     IN \E o \in setNameOutcomes({ n.name : n \in others }, name) :
          IF o = "refused"
          THEN /\ err' = "invalid_argument"
               /\ UNCHANGED << varNames, gnf >>
          ELSE /\ err' = ""
               /\ varNames' = IF name = <<>> THEN others
                              ELSE others \cup {[v |-> v, name |-> name]}
               /\ gnf' = IF varname = nullptr THEN gnf
                         ELSE write_out([t |-> "symbol", var |-> variable + 1,
                                         name |-> varname])
  /\ last' = Call("setVariableName", 0, <<variable, varname>>, <<>>)
  /\ UNCHANGED << problemVars, learnts, okay, trail, trail_lim, elog, under, over,
                  dirty, runVars, outfile, theoryVars, nodeNames, distLits, preds,
                  fsms >>
  /\ UNCHANGED otherVars

\* Variant: the variable is made first, the name looked at afterwards.
NewNamedVar_late(varname) ==
  /\ pc = "idle"
  /\ nVars' = nVars + 1
  /\ IF varname # nullptr /\ strlen(varname) > 0
     THEN IF hasVariable(varname) \/ HasIllegalChar(varname)
          THEN /\ err' = "invalid_argument"
               /\ last' = Call("newNamedVar", -1, <<varname>>, <<>>)
               /\ UNCHANGED << varNames, gnf >>
          ELSE /\ err' = ""
               /\ varNames' = varNames \cup {[v |-> nVars, name |-> varname]}
               /\ gnf' = write_out([t |-> "symbol", var |-> externalVar(nVars) + 1,
                                     name |-> varname])
               /\ last' = Call("newNamedVar", externalVar(nVars), <<varname>>, <<>>)
     ELSE /\ err' = ""
          /\ last' = Call("newNamedVar", externalVar(nVars), <<varname>>, <<>>)
          /\ UNCHANGED << varNames, gnf >>
  /\ UNCHANGED << edges, reachLits, clauses, learnts, okay, trail, trail_lim, elog,
                  under, over, dirty, runVars, outfile, theoryVars, nodeNames,
                  distLits, preds, fsms >>
  /\ UNCHANGED otherVars

\* int newNamedVar(S, varname): newVar and setVariableName once the name is
\* known to be unused and legal, or plain newVar without a name.
NewNamedVar(varname) ==
  /\ pc = "idle"
  /\ IF varname # nullptr /\ strlen(varname) > 0
     THEN IF hasVariable(varname) \/ HasIllegalChar(varname)
          THEN /\ err' = "invalid_argument"
               /\ last' = Call("newNamedVar", -1, <<varname>>, <<>>)
               /\ UNCHANGED << nVars, varNames, gnf >>
          ELSE /\ err' = ""
               /\ nVars' = nVars + 1
               /\ varNames' = varNames \cup {[v |-> nVars, name |-> varname]}
               /\ gnf' = write_out([t |-> "symbol", var |-> externalVar(nVars) + 1,
                                     name |-> varname])
               /\ last' = Call("newNamedVar", externalVar(nVars), <<varname>>, <<>>)
     ELSE /\ err' = ""
          /\ nVars' = nVars + 1
          /\ last' = Call("newNamedVar", externalVar(nVars), <<varname>>, <<>>)
          /\ UNCHANGED << varNames, gnf >>
  /\ UNCHANGED << edges, reachLits, clauses, learnts, okay, trail, trail_lim, elog,
                  under, over, dirty, runVars, outfile, theoryVars, nodeNames,
                  distLits, preds, fsms >>
  /\ UNCHANGED otherVars

\* G->hasNamedNode(name)
G_hasNamedNode(name) == \E n \in 1 .. Len(nodeNames) : nodeNames[n] = name

\* int newNode_Named(S, G, name): only a name already in use is refused
\* before the node is made and its line begun; G->setNodeName comes after.
NewNode_Named(name) ==
  /\ pc = "idle"
  /\ LET named == name # nullptr /\ strlen(name) > 0
         n == Len(nodeNames)
     IN IF named /\ G_hasNamedNode(name)
        THEN /\ err' = "invalid_argument"
             /\ last' = Call("newNode_Named", -1, <<name>>, <<>>)
             /\ UNCHANGED << nodeNames, gnf >>
        ELSE \E o \in setNameOutcomes({}, IF named THEN name ELSE <<>>) :
               IF o = "refused"
               THEN /\ err' = "invalid_argument"
                    /\ nodeNames' = Append(nodeNames, <<>>)
                    /\ gnf' = write_out([t |-> "node", n |-> n, name |-> <<>>,
                                          ended |-> FALSE])
                    /\ last' = Call("newNode_Named", -1, <<name>>, <<>>)
               ELSE /\ err' = ""
                    /\ nodeNames' = Append(nodeNames, IF named THEN name ELSE <<>>)
                    /\ gnf' = write_out([t |-> "node", n |-> n,
                                          name |-> IF named THEN name ELSE <<>>,
                                          ended |-> TRUE])
                    /\ last' = Call("newNode_Named", n, <<name>>, <<>>)
  /\ UNCHANGED << problemVars, learnts, okay, trail, trail_lim, elog, under, over,
                  dirty, runVars, outfile, theoryVars, varNames, distLits, preds,
                  fsms >>
  /\ UNCHANGED otherVars

\* int newNode(S, G)
NewNode == NewNode_Named(<<>>)

(* ----------------------------- API: edge sets -------------------------- *)
\* Variant: a implies b only.
makeEqualInSolver_oneWay(a, b) == << {neg(a), b} >>
\* G->makeEqualInSolver(a, b): the two clauses of a <=> b.
makeEqualInSolver(a, b) == << {neg(a), b}, {a, neg(b)} >>

RECURSIVE equalities(_, _)
equalities(ls, v) ==
  IF ls = <<>> THEN <<>>
  ELSE makeEqualInSolver(mkLit(v, FALSE), Head(ls)) \o equalities(Tail(ls), v + 1)

\* The edge-set arguments a caller passes: the literals of distinct edges.
EdgeSetInputs ==
  { SortedSeq({ externalLit(edgeLit(e)) : e \in E }) :
      E \in { X \in SUBSET EdgeIds : Cardinality(X) >= 2 } }

\* S->mapVar(v): the internal variable of an external one; a number no call
\* handed out is taken for a variable beyond the allocated ones.
mapVar(v) == IF v \in ExtVars THEN internalVar(v) ELSE nVars + (v - Cardinality(Mapped))

\* S->hasTheory(v), and S->getTheoryID(v) = G->getTheoryIndex(): the variables
\* the theories made for their edges, predicates and comparisons.
GraphTheoryVars ==
  { edges[e].v : e \in EdgeIds } \cup { r.v : r \in reachLits }
    \cup { r.v : r \in distLits } \cup { r.v : r \in preds }
hasTheory(v) == v \in GraphTheoryVars \/ v \in { c.v : c \in bvCmps } \/ v \in hidden

\* The tests of newEdgeSet's first loop on the variable of one listed literal.
BadEdgeSetVar(outer) ==
  \/ outer >= nVars
  \/ ~hasTheory(outer)
  \/ outer \notin GraphTheoryVars
  \/ ~isEdgeVar(outer)

\* Variant: the constraints are added while the list is read, each literal
\* tested after it was used.
NewEdgeSet_testLate(edgeSet, enforceEdgeAssignment) ==
  /\ pc = "idle"
  /\ LET n == Len(edgeSet)
         outer == [i \in 1 .. n |-> mapVar(var(edgeSet[i]))]
         bad == { i \in 1 .. n : BadEdgeSetVar(outer[i]) }
         edge_lits == [i \in 1 .. n |-> mkLit(outer[i], FALSE)]
         fresh == nVars .. (nVars + n - 1)
         r == addClauses([st |-> Cur, ok |-> okay, kept |-> {}, edge |-> FALSE],
                         << SeqLits(edge_lits) >> \o equalities(edge_lits, nVars))
     IN /\ gnf' = write_out([t |-> "edge_set",
                              lits |-> [i \in 1 .. n |-> dimacs(mkLit(var(edgeSet[i]), FALSE))]])
        /\ IF enforceEdgeAssignment
           THEN /\ nVars' = nVars + n
                /\ hidden' = hidden \cup fresh
                /\ amo' = Append(amo, fresh)
                /\ Install(r.st)
                /\ snap' = SubSeq(snap, 1, Len(r.st.lim))
                /\ okay' = r.ok
                /\ clauses' = clauses \cup r.kept
                /\ dirty' = (dirty \/ r.edge)
           ELSE UNCHANGED << nVars, hidden, amo, trail, trail_lim, elog, under,
                             over, snap, okay, clauses, dirty >>
        /\ IF bad # {}
           THEN /\ err' = "runtime_error"
                /\ last' = Call("newEdgeSet", -1, <<edgeSet, enforceEdgeAssignment>>, <<>>)
                /\ UNCHANGED edgeSets
           ELSE /\ err' = ""
                /\ last' = NoCall
                /\ edgeSets' = Append(edgeSets, [lits |-> edgeSet,
                                                 enforce |-> enforceEdgeAssignment])
  /\ UNCHANGED << edges, reachLits, learnts, budgetVars, resultVars,
                  asynch_interrupt, assumptions, pending, pc, nSolves,
                  outfile, bvs, bvCmps, varNames, nodeNames, distLits, preds, fsms >>
  /\ UNCHANGED << bvMoreVars, capacity, procVars >>

\* void newEdgeSet(S, G, edges, n_edges, enforceEdgeAssignment): a listed
\* literal that fails a test ends the call in the first loop, the line
\* written up to that literal and left open.
NewEdgeSet(edgeSet, enforceEdgeAssignment) ==
  /\ pc = "idle"
  /\ LET n == Len(edgeSet)
         outer == [i \in 1 .. n |-> mapVar(var(edgeSet[i]))]
         bad == { i \in 1 .. n : BadEdgeSetVar(outer[i]) }
         edge_lits == [i \in 1 .. n |-> mkLit(outer[i], FALSE)]
         fresh == nVars .. (nVars + n - 1)
         r == addClauses([st |-> Cur, ok |-> okay, kept |-> {}, edge |-> FALSE],
                         << SeqLits(edge_lits) >> \o equalities(edge_lits, nVars))
     IN IF bad # {}
        THEN LET first == CHOOSE i \in bad : \A k \in bad : i <= k
             IN /\ err' = "runtime_error"
                /\ gnf' = write_out([t |-> "edge_set",
                                      lits |-> [i \in 1 .. first |->
                                                  dimacs(mkLit(var(edgeSet[i]), FALSE))],
                                      ended |-> FALSE])
                /\ last' = Call("newEdgeSet", -1, <<edgeSet, enforceEdgeAssignment>>, <<>>)
                /\ UNCHANGED << nVars, hidden, amo, trail, trail_lim, elog, under,
                                over, snap, okay, clauses, dirty, edgeSets >>
        ELSE /\ err' = ""
             /\ gnf' = write_out([t |-> "edge_set",
                                   lits |-> [i \in 1 .. n |-> dimacs_S(edge_lits[i])]])
             /\ IF enforceEdgeAssignment
                THEN /\ nVars' = nVars + n
                     /\ hidden' = hidden \cup fresh
                     /\ amo' = Append(amo, fresh)
                     /\ Install(r.st)
                     /\ snap' = SubSeq(snap, 1, Len(r.st.lim))
                     /\ okay' = r.ok
                     /\ clauses' = clauses \cup r.kept
                     /\ dirty' = (dirty \/ r.edge)
                ELSE UNCHANGED << nVars, hidden, amo, trail, trail_lim, elog, under,
                                  over, snap, okay, clauses, dirty >>
             /\ last' = NoCall
             /\ edgeSets' = Append(edgeSets, [lits |-> edgeSet,
                                              enforce |-> enforceEdgeAssignment])
  /\ UNCHANGED << edges, reachLits, learnts, budgetVars, resultVars,
                  asynch_interrupt, assumptions, pending, pc, nSolves,
                  outfile, bvs, bvCmps, varNames, nodeNames, distLits, preds, fsms >>
  /\ UNCHANGED << bvMoreVars, capacity, procVars >>

(* -------------------------------- API: FSMs ---------------------------- *)
\* int newFSM(S, fsmTheory, inputAlphabet, outputAlphabet)
NewFSM ==
  /\ pc = "idle"
  /\ fsms' = Append(fsms, 0)
  /\ gnf' = write_out([t |-> "fsm", id |-> Len(fsms)])
  /\ last' = Call("newFSM", Len(fsms), <<>>, <<>>)
  /\ UNCHANGED << problemVars, learnts, okay, trail, trail_lim, elog, under, over,
                  dirty, runVars, outfile, theoryVars, varNames, nodeNames,
                  distLits, preds, err >>
  /\ UNCHANGED otherVars

\* int newState(S, fsmTheory, fsmID): fsmTheory->newNode(fsmID) and nothing else.
NewState(fsmID) ==
  /\ pc = "idle"
  /\ fsms' = [fsms EXCEPT ![fsmID + 1] = @ + 1]
  /\ last' = Call("newState", fsms[fsmID + 1], <<fsmID>>, <<>>)
  /\ UNCHANGED << problemVars, learnts, okay, trail, trail_lim, elog, under, over,
                  dirty, runVars, traceVars, theoryVars, varNames, nodeNames,
                  distLits, preds, err >>
  /\ UNCHANGED otherVars

\* Variant: the solver always claims to be consistent.
ok_always == TRUE

\* bool ok(S)
ok == okay

\* Variant: only the last decision level is undone.
Backtrack_oneLevel ==
  /\ UNCHANGED apiVars
  /\ pc = "idle"
  /\ LET st == cancelUntil(Cur, IF decisionLevel > 0 THEN decisionLevel - 1 ELSE 0)
     IN /\ Install(st)
        /\ snap' = SubSeq(snap, 1, Len(st.lim))
  /\ UNCHANGED << last, nVars, edges, reachLits, clauses, learnts, okay, dirty, model,
                  conflict, has_conflict_clause_from_last_solution,
                  last_solution_optimal, conflict_budget, propagation_budget,
                  asynch_interrupt, assumptions, pending, pc, nSolves >>
  /\ UNCHANGED otherVars

\* void backtrack(S)
Backtrack ==
  /\ UNCHANGED apiVars
  /\ pc = "idle"
  /\ LET st == cancelUntil(Cur, 0)
     IN /\ Install(st)
        /\ snap' = SubSeq(snap, 1, Len(st.lim))
  /\ UNCHANGED << last, nVars, edges, reachLits, clauses, learnts, okay, dirty, model,
                  conflict, has_conflict_clause_from_last_solution,
                  last_solution_optimal, conflict_budget, propagation_budget,
                  asynch_interrupt, assumptions, pending, pc, nSolves >>
  /\ UNCHANGED otherVars

\* void setConflictLimit(S, num_conflicts)
SetConflictLimit(n) ==
  /\ UNCHANGED apiVars
  /\ pc = "idle"
  /\ conflict_budget' = n
  /\ UNCHANGED << last, nVars, edges, reachLits, clauses, learnts, okay, trail, trail_lim,
                  elog, under, over, dirty, model, conflict,
                  has_conflict_clause_from_last_solution, last_solution_optimal,
                  propagation_budget, asynch_interrupt, assumptions, pending, pc,
                  snap, nSolves >>
  /\ UNCHANGED otherVars

\* void setPropagationLimit(S, num_propagations)
SetPropagationLimit(n) ==
  /\ UNCHANGED apiVars
  /\ pc = "idle"
  /\ propagation_budget' = n
  /\ UNCHANGED << last, nVars, edges, reachLits, clauses, learnts, okay, trail, trail_lim,
                  elog, under, over, dirty, model, conflict,
                  has_conflict_clause_from_last_solution, last_solution_optimal,
                  conflict_budget, asynch_interrupt, assumptions, pending, pc,
                  snap, nSolves >>
  /\ UNCHANGED otherVars


(* ------------------------------ solving -------------------------------- *)
\* Solver::withinBudget
withinBudget ==
  /\ ~asynch_interrupt
  /\ conflict_budget # 0
  /\ propagation_budget # 0

Spend(b) == IF b > 0 THEN b - 1 ELSE b
SpendN(b, n) == IF b < 0 THEN b ELSE IF b > n THEN b - n ELSE 0

AtFixedPoint ==
  /\ ~BCPPending
  /\ ~dirty
  /\ \A p \in PluginIds : ~PluginPending(trail, p)

\* Variant: UNKNOWN is reported as UNSAT.
SolveReturn_conflated(r) ==
  /\ last_solution_optimal' = TRUE
  /\ has_conflict_clause_from_last_solution' = (r # l_True)
  /\ pc' = "idle"
  /\ pending' = {}
  /\ assumptions' = <<>>
  /\ last' = SolveCall("solve", IF r = l_True THEN l_True ELSE l_False,
                       assumptions, last.prev)

\* The end of _solve: the engine's answer r is recorded and returned as an int.
\* found_optimal stays true: no objectives are modelled.
SolveReturn(r) ==
  /\ last_solution_optimal' = TRUE
  /\ has_conflict_clause_from_last_solution' = (r = l_False)
  /\ pc' = "idle"
  /\ pending' = {}
  /\ assumptions' = <<>>
  /\ last' = SolveCall("solve", r, assumptions, last.prev)

\* int _solve(S, assumptions, n_assumptions) up to the engine's search loop.
SolveBegin(assumps) ==
  /\ UNCHANGED << outfile, theoryVars, bookVars >>
  /\ pc = "idle"
  /\ nSolves' = nSolves + 1
  /\ LET st == cancelUntil(Cur, 0)
     IN /\ Install(st)
        /\ snap' = <<>>
  /\ model' = <<>>
  /\ conflict' = {}
  /\ LET assume == [i \in 1 .. Len(assumps) |-> internalLit(assumps[i])]
     IN /\ gnf' = write_out([t |-> "solve",
                              lits |-> [i \in 1 .. Len(assume) |-> dimacs_S(assume[i])]])
        /\ IF ~okay
           THEN /\ last_solution_optimal' = TRUE
                /\ has_conflict_clause_from_last_solution' = TRUE
                /\ pc' = "idle"
                /\ pending' = {}
                /\ assumptions' = <<>>
                /\ last' = SolveCall("solve", l_False, assume,
                                      IF last.op = "solve" THEN last.ret ELSE -1)
           ELSE /\ assumptions' = assume
                /\ last_solution_optimal' = TRUE
                /\ has_conflict_clause_from_last_solution' = FALSE
                /\ pc' = "search"
                /\ pending' = {}
                /\ last' = SolveCall("solving", l_Undef, assume,
                                      IF last.op = "solve" THEN last.ret ELSE -1)
  /\ UNCHANGED << nVars, edges, reachLits, clauses, learnts, okay, dirty,
                  conflict_budget, propagation_budget, asynch_interrupt >>
  /\ \E cur_time \in CpuTimes :
       LET limited == enableResourceLimits(proc, cur_time)
       IN proc' = IF pc' = "idle" THEN disableResourceLimits(limited) ELSE limited
  /\ UNCHANGED quietVars

\* Solver::propagate: unit propagation to a fixed point or to the first
\* conflicting clause; n counts the literals enqueued.
RECURSIVE BCP(_, _)
BCP(st, n) ==
  LET falses == { c \in DB : IsFalseOn(st.trail, c) }
      units == { c \in DB : IsUnitOn(st.trail, c) }
      c1 == CHOOSE c \in units : TRUE
  IN IF falses # {} THEN [st |-> st, confl |-> CHOOSE c \in falses : TRUE, n |-> n]
     ELSE IF units = {} THEN [st |-> st, confl |-> {}, n |-> n]
     ELSE BCP(uncheckedEnqueue(st, UnitLit(st.trail, c1), Reason("clause", c1)), n + 1)

\* A conflict on clause confl in engine state st: at the root the formula is
\* unsatisfiable; otherwise learn the first-UIP clause and backjump.
HandleConflict(st, confl) ==
  IF Len(st.lim) = 0
  THEN /\ okay' = FALSE
       /\ conflict' = {}
       /\ Install(st)
       /\ SolveReturn(l_False)
       /\ UNCHANGED << snap, conflict_budget >>
  ELSE LET learnt == analyze(st, confl)
           st2 == cancelUntil(st, BackjumpLevel(st, learnt))
       IN /\ Install(st2)
          /\ snap' = SubSeq(snap, 1, Len(st2.lim))
          /\ pending' = learnt
          /\ pc' = "learn"
          /\ conflict_budget' = Spend(conflict_budget)
          /\ UNCHANGED << okay, conflict, last, assumptions,
                          has_conflict_clause_from_last_solution,
                          last_solution_optimal >>

\* One call of Solver::propagate() from the search loop.
Propagate ==
  /\ UNCHANGED apiVars
  /\ pc = "search"
  /\ BCPPending
  /\ LET b == BCP(Cur, 0)
     IN /\ propagation_budget' = SpendN(propagation_budget, b.n)
        /\ dirty' = (dirty \/ Len(b.st.elog) > Len(elog))
        /\ IF b.confl # {}
           THEN HandleConflict(b.st, b.confl)
           ELSE /\ Install(b.st)
                /\ UNCHANGED << okay, conflict, pending, pc, snap, last, assumptions,
                                has_conflict_clause_from_last_solution,
                                last_solution_optimal, conflict_budget >>
  /\ UNCHANGED << nVars, edges, reachLits, clauses, learnts, model,
                  asynch_interrupt, nSolves >>
  /\ LeaveSolve
  /\ UNCHANGED quietVars

\* The graph plugin's propagate(), run once Boolean propagation is drained.
TheoryPropagate ==
  /\ UNCHANGED apiVars
  /\ pc = "search"
  /\ ~BCPPending
  /\ dirty
  /\ dirty' = FALSE
  /\ LET wants == TheoryWants(Cur)
         bad == { l \in wants : value(l) = l_False }
         new == { l \in wants : value(l) = l_Undef }
     IN IF bad # {}
        THEN HandleConflict(Cur, Explain(trail, CHOOSE l \in bad : \A m \in bad : l <= m))
        ELSE /\ Install(EnqueueAll(Cur, SortedSeq(new), Reason("theory", {})))
             /\ UNCHANGED << okay, conflict, pending, pc, snap, last, assumptions,
                             has_conflict_clause_from_last_solution,
                             last_solution_optimal, conflict_budget >>
  /\ UNCHANGED << nVars, edges, reachLits, clauses, learnts, model,
                  propagation_budget, asynch_interrupt, nSolves >>
  /\ LeaveSolve
  /\ UNCHANGED quietVars

\* Variant: a plugin's propagate() is entered as soon as the plugin has work.
PluginPropagate_eager ==
  /\ UNCHANGED apiVars
  /\ pc = "search"
  /\ \E p \in PluginIds :
       /\ PluginPending(trail, p)
       /\ LET new == { l \in PluginWants(trail, p) : value(l) = l_Undef }
              st == EnqueueAll(Cur, SortedSeq(new), PluginReason(p))
          IN /\ new # {}
             /\ Install(st)
             /\ dirty' = (dirty \/ Len(st.elog) > Len(elog))
  /\ UNCHANGED << nVars, edges, reachLits, clauses, learnts, model, okay, conflict,
                  pending, pc, snap, last, assumptions, conflict_budget,
                  has_conflict_clause_from_last_solution, last_solution_optimal,
                  propagation_budget, asynch_interrupt, nSolves >>
  /\ LeaveSolve
  /\ UNCHANGED quietVars

\* propagate() of the first plugin after the graph that has work, entered
\* once Boolean propagation is drained and the graph plugin has nothing to do.
PluginPropagate ==
  /\ UNCHANGED apiVars
  /\ pc = "search"
  /\ ~BCPPending
  /\ ~dirty
  /\ \E p \in PluginIds :
       /\ PluginPending(trail, p)
       /\ \A q \in PluginIds : q < p => ~PluginPending(trail, q)
       /\ LET wants == PluginWants(trail, p)
              bad == { l \in wants : value(l) = l_False }
              new == { l \in wants : value(l) = l_Undef }
          IN IF bad # {}
             THEN /\ HandleConflict(Cur, PluginExplain(p, trail,
                                      CHOOSE l \in bad : \A m \in bad : l <= m))
                  /\ UNCHANGED dirty
             ELSE LET st == EnqueueAll(Cur, SortedSeq(new), PluginReason(p))
                  IN /\ Install(st)
                     /\ dirty' = (Len(st.elog) > Len(elog))
                     /\ UNCHANGED << okay, conflict, pending, pc, snap, last,
                                     assumptions, conflict_budget,
                                     has_conflict_clause_from_last_solution,
                                     last_solution_optimal >>
  /\ UNCHANGED << nVars, edges, reachLits, clauses, learnts, model,
                  propagation_budget, asynch_interrupt, nSolves >>
  /\ LeaveSolve
  /\ UNCHANGED quietVars

\* After the backjump the learned clause is stored and its UIP literal asserted.
Learn ==
  /\ UNCHANGED apiVars
  /\ pc = "learn"
  /\ LET uip == CHOOSE l \in pending : value(l) = l_Undef
     IN /\ Install(uncheckedEnqueue(Cur, uip, Reason("clause", pending)))
        /\ dirty' = (dirty \/ isEdgeVar(var(uip)))
  /\ learnts' = IF Cardinality(pending) > 1 THEN learnts \cup {pending} ELSE learnts
  /\ pending' = {}
  /\ pc' = "search"
  /\ UNCHANGED << nVars, edges, reachLits, clauses, okay, model, conflict,
                  has_conflict_clause_from_last_solution, last_solution_optimal,
                  conflict_budget, propagation_budget, asynch_interrupt,
                  assumptions, snap, last, nSolves >>
  /\ LeaveSolve
  /\ UNCHANGED quietVars


\* Budget exhausted or interrupted at a decision point: UNKNOWN, trail unwound.
Stop ==
  /\ UNCHANGED apiVars
  /\ pc = "search"
  /\ AtFixedPoint
  /\ ~withinBudget
  /\ LET st == cancelUntil(Cur, 0)
     IN /\ Install(st)
        /\ snap' = SubSeq(snap, 1, Len(st.lim))
  /\ asynch_interrupt' = FALSE
  /\ SolveReturn(l_Undef)
  /\ UNCHANGED << nVars, edges, reachLits, clauses, learnts, okay, dirty, model,
                  conflict, conflict_budget, propagation_budget, nSolves >>
  /\ LeaveSolve
  /\ UNCHANGED quietVars

\* The next assumption is taken as the decision of its own level.
DecideAssumption ==
  /\ UNCHANGED apiVars
  /\ pc = "search"
  /\ AtFixedPoint
  /\ withinBudget
  /\ decisionLevel < Len(assumptions)
  /\ LET p == assumptions[decisionLevel + 1]
     IN IF value(p) = l_True
        THEN \* already satisfied: a dummy level
             /\ Install(newDecisionLevel(Cur))
             /\ snap' = Append(snap, Cur)
             /\ UNCHANGED << conflict, dirty, pc, pending, last, assumptions,
                             has_conflict_clause_from_last_solution,
                             last_solution_optimal >>
        ELSE IF value(p) = l_False
        THEN \* the assumptions are inconsistent with the formula
             /\ conflict' = analyzeFinal(Cur, neg(p))
             /\ LET st == cancelUntil(Cur, 0)
                IN /\ Install(st)
                   /\ snap' = SubSeq(snap, 1, Len(st.lim))
             /\ SolveReturn(l_False)
             /\ UNCHANGED dirty
        ELSE /\ Install(uncheckedEnqueue(newDecisionLevel(Cur), p,
                                         Reason("assumption", {})))
             /\ snap' = Append(snap, Cur)
             /\ dirty' = (dirty \/ isEdgeVar(var(p)))
             /\ UNCHANGED << conflict, pc, pending, last, assumptions,
                             has_conflict_clause_from_last_solution,
                             last_solution_optimal >>
  /\ UNCHANGED << nVars, edges, reachLits, clauses, learnts, okay, model,
                  conflict_budget, propagation_budget, asynch_interrupt,
                  nSolves >>
  /\ LeaveSolve
  /\ UNCHANGED quietVars

\* pickBranchLit: the lowest unassigned variable, either polarity.
Decide ==
  /\ UNCHANGED apiVars
  /\ pc = "search"
  /\ AtFixedPoint
  /\ withinBudget
  /\ decisionLevel >= Len(assumptions)
  /\ \E v \in Vars :
       /\ value(mkLit(v, FALSE)) = l_Undef
       /\ \A w \in Vars : w < v => value(mkLit(w, FALSE)) # l_Undef
       /\ \E s \in BOOLEAN :
            /\ Install(uncheckedEnqueue(newDecisionLevel(Cur), mkLit(v, s),
                                        Reason("decision", {})))
            /\ dirty' = (dirty \/ isEdgeVar(v))
  /\ snap' = Append(snap, Cur)
  /\ UNCHANGED << nVars, edges, reachLits, clauses, learnts, okay, model, conflict,
                  has_conflict_clause_from_last_solution, last_solution_optimal,
                  conflict_budget, propagation_budget, asynch_interrupt,
                  assumptions, pending, pc, last, nSolves >>
  /\ LeaveSolve
  /\ UNCHANGED quietVars

\* Every variable is assigned and nothing is left to propagate: the
\* assignment is copied to S->model and kept on the trail.
FinishSat ==
  /\ UNCHANGED apiVars
  /\ pc = "search"
  /\ AtFixedPoint
  /\ withinBudget
  /\ decisionLevel >= Len(assumptions)
  /\ \A v \in Vars : value(mkLit(v, FALSE)) # l_Undef
  /\ model' = [i \in 1 .. nVars |-> value(mkLit(i - 1, FALSE))]
  /\ SolveReturn(l_True)
  /\ UNCHANGED << nVars, edges, reachLits, clauses, learnts, okay, trail, trail_lim,
                  elog, under, over, dirty, conflict, conflict_budget,
                  propagation_budget, asynch_interrupt, snap, nSolves >>
  /\ LeaveSolve
  /\ UNCHANGED quietVars

\* Solver::interrupt(), raised asynchronously while a solve runs.
Interrupt ==
  /\ UNCHANGED apiVars
  /\ pc \in {"search", "learn"}
  /\ ~asynch_interrupt
  /\ asynch_interrupt' = TRUE
  /\ UNCHANGED << nVars, edges, reachLits, clauses, learnts, okay, trail, trail_lim,
                  elog, under, over, dirty, model, conflict,
                  has_conflict_clause_from_last_solution, last_solution_optimal,
                  conflict_budget, propagation_budget, assumptions, pending, pc,
                  snap, last, nSolves >>
  /\ UNCHANGED otherVars

(* ------------------- API: limits, solvers and the signal --------------- *)
procRest == << problemVars, learnts, okay, trail, trail_lim, elog, under, over,
               dirty, runVars, apiVars, bvMoreVars, edgeSets, capacity,
               moreVars >>
\* The solver objects a client may pass: solver 1, and the others once
\* newSolver_args has returned them and until deleteSolver is given them.
Alive(S) == S = 1 \/ (S \in OtherSolvers /\ heap[S] \in {"live", "interrupted"})

\* void setTimeLimit(S, seconds)
SetTimeLimit(S, seconds) ==
  /\ pc = "idle"
  /\ proc' = [proc EXCEPT !.time_limit = seconds]
  /\ last' = Call("setTimeLimit", 0, << S >>, <<>>)
  /\ UNCHANGED << procRest, heap, call >>
\* void setMemoryLimit(S, mb)
SetMemoryLimit(S, mb) ==
  /\ pc = "idle"
  /\ proc' = [proc EXCEPT !.memory_limit = mb]
  /\ last' = Call("setMemoryLimit", 0, << S >>, <<>>)
  /\ UNCHANGED << procRest, heap, call >>

\* newSolver_args up to `new SimpSolver()`: the object exists, the registry
\* does not hold it yet.
NewSolver_new(S) ==
  /\ pc = "idle"
  /\ call = NoApiCall
  /\ heap[S] = "unborn"
  /\ heap' = [heap EXCEPT ![S] = "live"]
  /\ call' = [op |-> "newSolver_args", S |-> S, at |-> "insert"]
  /\ UNCHANGED << procRest, proc, last >>
\* newSolver_args from `solvers.insert(S)` to its return.
NewSolver_insert ==
  /\ call.op = "newSolver_args"
  /\ proc' = [proc EXCEPT !.solvers = @ \cup {call.S}]
  /\ call' = NoApiCall
  /\ last' = Call("newSolver_args", call.S, <<>>, <<>>)
  /\ UNCHANGED << procRest, heap >>

\* deleteSolver up to `S->interrupt()`.
DeleteSolver_interrupt(S) ==
  /\ pc = "idle"
  /\ call = NoApiCall
  /\ heap' = [heap EXCEPT ![S] = "interrupted"]
  /\ call' = [op |-> "deleteSolver", S |-> S, at |-> "erase"]
  /\ UNCHANGED << procRest, proc, last >>
\* Variant: the solver stays in the registry.
DeleteSolver_erase_kept ==
  /\ call.op = "deleteSolver"
  /\ call.at = "erase"
  /\ call' = [call EXCEPT !.at = "delete"]
  /\ UNCHANGED << procRest, proc, heap, last >>
\* deleteSolver: `solvers.erase(S)`
DeleteSolver_erase ==
  /\ call.op = "deleteSolver"
  /\ call.at = "erase"
  /\ proc' = [proc EXCEPT !.solvers = @ \ {call.S}]
  /\ call' = [call EXCEPT !.at = "delete"]
  /\ UNCHANGED << procRest, heap, last >>
\* deleteSolver from the release of its data to `delete (S)`.
DeleteSolver_delete ==
  /\ call.op = "deleteSolver"
  /\ call.at = "delete"
  /\ heap' = [heap EXCEPT ![call.S] = "freed"]
  /\ call' = NoApiCall
  /\ last' = Call("deleteSolver", 0, << call.S >>, <<>>)
  /\ UNCHANGED << procRest, proc >>

\* SIGXCPU is delivered while SIGNAL_HANDLER_api is its disposition: the
\* handler runs between two steps of whatever is in progress. interrupt() on
\* an object that was deleted is a use after free.
MaxSignals == 1
SIGNAL_HANDLER ==
  /\ proc.SIGXCPU = SIGNAL_HANDLER_api
  /\ proc.stdout < MaxSignals
  /\ proc' = [disableResourceLimits(proc) EXCEPT !.stdout = @ + 1]
  /\ asynch_interrupt' = (asynch_interrupt \/ 1 \in proc.solvers)
  /\ heap' = [s \in OtherSolvers |->
                IF s \notin proc.solvers THEN heap[s]
                ELSE IF heap[s] \in {"live", "interrupted"} THEN "interrupted"
                ELSE "use after free"]
  /\ UNCHANGED << problemVars, learnts, okay, trail, trail_lim, elog, under, over,
                  dirty, budgetVars, resultVars, assumptions, pending, pc, snap,
                  nSolves, last, apiVars, bvMoreVars, edgeSets, capacity, call,
                  moreVars >>

\* _solve with an assumption whose variable is not allocated: api_errorf
\* throws from the loop that follows enableResourceLimits and cancelUntil,
\* and nothing catches it before the caller.
SolveAbort(assumps) ==
  /\ pc = "idle"
  /\ \E i \in 1 .. Len(assumps) : mapVar(var(assumps[i])) >= nVars
  /\ last_solution_optimal' = TRUE
  /\ has_conflict_clause_from_last_solution' = FALSE
  /\ gnf' = write_out([t |-> "solve",
                       lits |-> [i \in 1 .. Len(assumps) |-> dimacs(assumps[i])]])
  /\ \E cur_time \in CpuTimes : proc' = enableResourceLimits(proc, cur_time)
  /\ LET st == cancelUntil(Cur, 0)
     IN /\ Install(st)
        /\ snap' = <<>>
  /\ err' = "runtime_error"
  /\ nSolves' = nSolves + 1
  /\ last' = Call("solve", -1, assumps, <<>>)
  /\ UNCHANGED << nVars, edges, reachLits, clauses, learnts, okay, dirty, model,
                  conflict, budgetVars, asynch_interrupt, assumptions, pending, pc,
                  outfile, theoryVars, varNames, nodeNames, distLits, preds, fsms,
                  bvMoreVars, edgeSets, capacity, heap, call, moreVars >>

(* ---------------------- API: theories and objectives ------------------- *)
\* GraphTheorySolver * newGraph_Named(S, name, bitwidth), and newGraph(S),
\* which calls it with the name "" and the width -2: the new graph is given
\* the bitvector theory when there is one.
NewGraph ==
  /\ pc = "idle"
  /\ graphs' = Append(graphs, bv_theory)
  /\ gnf' = write_out([t |-> "digraph", id |-> Len(graphs)])
  /\ last' = Call("newGraph", Len(graphs), <<>>, <<>>)
  /\ UNCHANGED << problemVars, learnts, okay, trail, trail_lim, elog, under, over,
                  dirty, runVars, outfile, theoryVars, bookVars, bvMoreVars,
                  edgeSets, capacity, proc, heap, call, const_true, reader,
                  optimization_objectives, bv_theory >>

\* Variant: the graphs made before the theory are left without it.
initBVTheory_graphs_kept(bv) == graphs

\* initBVTheory: for (auto graph : d->graphs) graph->setBVTheory(bv)
initBVTheory_graphs(bv) == [i \in 1 .. Len(graphs) |-> bv]

\* BVTheorySolver * initBVTheory(S): last.ret is the theory returned.
InitBVTheory ==
  /\ pc = "idle"
  /\ IF bv_theory # 0
     THEN /\ last' = Call("initBVTheory", bv_theory, <<>>, <<>>)
          /\ UNCHANGED << bv_theory, graphs >>
     ELSE LET bv == bv_theory + 1
          IN /\ bv_theory' = bv
             /\ graphs' = initBVTheory_graphs(bv)
             /\ last' = Call("initBVTheory", bv, <<>>, <<>>)
  /\ UNCHANGED << problemVars, learnts, okay, trail, trail_lim, elog, under, over,
                  dirty, runVars, apiVars, bvMoreVars, edgeSets, capacity, proc,
                  heap, call, const_true, reader, optimization_objectives >>

\* maximizeBV and minimizeBV: the line is written first, then the two tests
\* that throw, then the objective is pushed.
optimizeBV(op, line, maximize, bvID) ==
  /\ pc = "idle"
  /\ gnf' = write_out([t |-> line, bv |-> bvID])
  /\ IF bv_theory = 0 \/ bvID \notin BvIds
     THEN /\ err' = "runtime_error"
          /\ UNCHANGED optimization_objectives
     ELSE /\ err' = ""
          /\ optimization_objectives' =
               Append(optimization_objectives, [bv |-> bvID, maximize |-> maximize])
  /\ last' = Call(op, 0, << bvID >>, <<>>)
  /\ UNCHANGED << problemVars, learnts, okay, trail, trail_lim, elog, under, over,
                  dirty, runVars, outfile, theoryVars, varNames, nodeNames,
                  distLits, preds, fsms, bvMoreVars, edgeSets, capacity, proc,
                  heap, call, const_true, reader, bv_theory, graphs >>

\* void maximizeBV(S, bv, bvID)
MaximizeBV(bvID) == optimizeBV("maximizeBV", "maximize bv", TRUE, bvID)

\* void minimizeBV(S, bv, bvID)
MinimizeBV(bvID) == optimizeBV("minimizeBV", "minimize bv", FALSE, bvID)

(* ------------------------------ API: readGNF --------------------------- *)
\* A GNF file as the parser sees it: clause lines and solve directives over
\* the literals of two variables, with or without something (white space)
\* after the last of them.
MaxFileLen == 3
GnfItems ==
  { [d |-> "clause", lits |-> << mkLit(0, TRUE) >>] }
    \cup { [d |-> "solve", lits |-> a] :
             a \in { <<>>, << mkLit(0, FALSE) >>, << mkLit(1, FALSE) >> } }
GnfFiles == UNION { [1 .. n -> GnfItems] : n \in 0 .. MaxFileLen }

\* parser.parse(strm, S) from position pos on: the index of the solve
\* directive it stops after, 0 if it reads to the end of the file.
NextSolve(file, pos) ==
  LET S == { j \in (pos + 1) .. Len(file) : file[j].d = "solve" }
  IN IF S = {} THEN 0 ELSE CHOOSE j \in S : \A k \in S : j <= k

\* The clause lines between two positions, and the variables a stretch of
\* the file needs.
ClausesIn(file, from, to) ==
  LET F[j \in (from - 1) .. to] ==
        IF j < from THEN <<>>
        ELSE IF file[j].d = "clause" THEN Append(F[j - 1], SeqLits(file[j].lits))
        ELSE F[j - 1]
  IN F[to]
VarsIn(file, from, to) ==
  MaxOf({ nVars } \cup UNION { { var(file[j].lits[i]) + 1 :
                                   i \in 1 .. Len(file[j].lits) } :
                                 j \in from .. to })

\* assumps.push(externalLit(S, l)) for every l of parser.assumptions
pushAssumptions(assumps, ls) ==
  assumps \o [i \in 1 .. Len(ls) |-> externalLit(ls[i])]

\* EOF is what the stream shows next.
AtEOF == reader.pos = Len(reader.file) /\ ~reader.trailing

\* readGNF after its loop: the vector the final solve is given. `assumps` is
\* not cleared there, the parser's assumptions are pushed onto what the last
\* solve of the loop left in it.
readGNF_lastAssumps(held) == pushAssumptions(reader.assumps, held)

\* readGNF: one parser.parse call and what follows it up to the
\* solveAssumptions call, in the loop or after it. The parser adds the clauses
\* it reads to the solver and keeps the assumptions of the solve directive it
\* has read; what it holds after reading to the end of the file is either
\* that or nothing.
ReadGNF_parse ==
  /\ reader.at = "parse"
  /\ pc = "idle"
  /\ LET j == NextSolve(reader.file, reader.pos)
         to == IF j = 0 THEN Len(reader.file) ELSE j
         r == addClauses([st |-> cancelUntil(Cur, 0), ok |-> okay, kept |-> {},
                          edge |-> FALSE],
                         ClausesIn(reader.file, reader.pos + 1, to))
     IN /\ nVars' = VarsIn(reader.file, reader.pos + 1, to)
        /\ Install(r.st)
        /\ snap' = SubSeq(snap, 1, Len(r.st.lim))
        /\ okay' = r.ok
        /\ clauses' = clauses \cup r.kept
        /\ IF j # 0
           THEN reader' = [reader EXCEPT !.pos = j,
                                         !.parser_assumptions = reader.file[j].lits,
                                         !.assumps = pushAssumptions(<<>>,
                                                        reader.file[j].lits),
                                         !.calls = @ + 1,
                                         !.at = "solving"]
           ELSE \E held \in { reader.parser_assumptions, <<>> } :
                  reader' =
                    IF reader.ran_last_solve
                    THEN [reader EXCEPT !.pos = to, !.parser_assumptions = held,
                                        !.at = "done"]
                    ELSE [reader EXCEPT
                            !.pos = to,
                            !.parser_assumptions = held,
                            !.assumps = readGNF_lastAssumps(held),
                            !.calls = @ + 1,
                            !.at = "final"]
  /\ optimization_objectives' = <<>>
  /\ last' = NoCall
  /\ UNCHANGED << edges, reachLits, learnts, dirty, budgetVars, resultVars,
                  asynch_interrupt, assumptions, pending, pc, nSolves, apiVars,
                  bvMoreVars, edgeSets, capacity, proc, heap, call, const_true,
                  bv_theory, graphs >>

\* readGNF: solveAssumptions(S, &assumps[0], assumps.size()), up to the search.
ReadGNF_solve ==
  /\ reader.at \in {"solving", "final"}
  /\ nSolves < reader.calls
  /\ SolveBegin(reader.assumps)

\* readGNF once solveAssumptions has returned: in the loop it looks for EOF
\* and parses on; after the final solve it clears the objectives and returns.
ReadGNF_solved ==
  /\ reader.at \in {"solving", "final"}
  /\ nSolves = reader.calls
  /\ pc = "idle"
  /\ reader' = IF reader.at = "final" THEN [reader EXCEPT !.at = "done"]
               ELSE [reader EXCEPT !.ran_last_solve = (@ \/ AtEOF), !.at = "parse"]
  /\ optimization_objectives' = <<>>
  /\ UNCHANGED << problemVars, learnts, okay, trail, trail_lim, elog, under, over,
                  dirty, runVars, last, apiVars, bvMoreVars, edgeSets, capacity,
                  proc, heap, call, const_true, bv_theory, graphs >>

(* ------------------------------ queries -------------------------------- *)
\* bool hasModel(S)
hasModel == Len(model) > 0

\* Variant: the sign of the literal is ignored.
getModel_Literal_unsigned(lit) ==
  LET l == internalLit(lit)
  IN IF var(l) >= Len(model) THEN l_Undef ELSE model[var(l) + 1]

\* Variant: the current assignment is read instead of S->model.
getModel_Literal_current(lit) == value(internalLit(lit))

\* int getModel_Literal(S, lit)
getModel_Literal(lit) ==
  LET l == internalLit(lit)
  IN IF var(l) >= Len(model) THEN l_Undef
     ELSE LET val == model[var(l) + 1]
          IN IF sign(l)
             THEN (IF val = l_True THEN l_False
                   ELSE IF val = l_False THEN l_True ELSE val)
             ELSE val

\* int getConflictClause(S, store_clause, max_store_size): the return value and
\* the literals stored.
getConflictClause_ret ==
  IF has_conflict_clause_from_last_solution THEN Cardinality(conflict) ELSE -1

\* Variant: the conflict literals are stored negated.
getConflictClause_negated ==
  IF has_conflict_clause_from_last_solution
  THEN { externalLit(neg(l)) : l \in conflict }
  ELSE {}

getConflictClause ==
  IF has_conflict_clause_from_last_solution
  THEN { externalLit(l) : l \in conflict }
  ELSE {}


(* ------------------------ what the formula means ----------------------- *)
Assignments == [Vars -> BOOLEAN]
Holds(A, l) == A[var(l)] # sign(l)
GraphOf(A) == { e \in EdgeIds : A[edges[e].v] }

\* A satisfies the clauses added, the reach predicates on the graph A induces,
\* the bitvector comparisons, the at-most-one sets, and the literals in as.
Satisfies(A, as) ==
  /\ \A c \in clauses : \E l \in c : Holds(A, l)
  /\ \A r \in reachLits : A[r.v] = HasPath(GraphOf(A), r.from, r.to)
  /\ \A c \in bvCmps : A[c.v] = CmpHolds(c)
  /\ \A i \in 1 .. Len(amo) : Cardinality({ v \in amo[i] : A[v] }) <= 1
  /\ \A l \in as : Holds(A, l)

Satisfiable(as) == okay /\ \E A \in Assignments : Satisfies(A, as)

(* ----------------------------- core minimization ----------------------- *)
RemoveAt(q, i) == SubSeq(q, 1, i - 1) \o SubSeq(q, i + 1, Len(q))

\* Deletion-based minimization from position i on; `tests` solves may still be
\* run (-1: no limit) before the search is cut short.
RECURSIVE Shrink(_, _, _)
Shrink(q, i, tests) ==
  IF i > Len(q) THEN [r |-> l_False, core |-> q]
  ELSE IF tests = 0 THEN [r |-> l_Undef, core |-> q]
  ELSE IF ~Satisfiable(SeqLits(RemoveAt(q, i)))
       THEN Shrink(RemoveAt(q, i), i, Spend(tests))
       ELSE Shrink(q, i + 1, Spend(tests))

\* getConflictClause(S, store_clause, max_store_size): what it returns and
\* the entries of store_clause it writes, in the order of S->conflict.
MaxStore == 2
getConflictClause_call(max_store_size) ==
  IF has_conflict_clause_from_last_solution
  THEN LET size == Cardinality(conflict)
           all == SortedSeq({ externalLit(l) : l \in conflict })
       IN [ret |-> size,
           store |-> SubSeq(all, 1, IF size < max_store_size THEN size
                                    ELSE max_store_size)]
  ELSE [ret |-> -1, store |-> <<>>]

\* lbool minimizeCore(S, assumptions, do_simp)
minimizeCore(q, tests) ==
  IF Satisfiable(SeqLits(q)) THEN [r |-> l_True, core |-> q]
  ELSE Shrink(q, 1, tests)

\* Variant: the minimized assumptions are not written back.
storeCore_untouched(unsat_assumptions, core) == unsat_assumptions

\* The caller's array after minimizeUnsatCore: the first entries overwritten
\* with the minimized assumptions.
storeCore(unsat_assumptions, core) ==
  [i \in 1 .. Len(unsat_assumptions) |->
     IF i <= Len(core) THEN externalLit(core[i]) ELSE unsat_assumptions[i]]

ModelOf(A) == [i \in 1 .. nVars |-> IF A[i - 1] THEN l_True ELSE l_False]

\* int minimizeUnsatCore(S, unsat_assumptions, n_lits), called by the client
\* or from minimizeConflictClause (`op` names the API call being recorded).
minimizeUnsatCore_from(op, unsat_assumptions) ==
  /\ UNCHANGED << outfile, theoryVars, bookVars >>
  /\ pc = "idle"
  /\ nSolves' = nSolves + 1
  /\ LET st == cancelUntil(Cur, 0)
     IN /\ Install(st)
        /\ snap' = <<>>
  /\ \E tests \in IF conflict_budget >= 0 \/ propagation_budget >= 0
                  THEN (-1) .. (Len(unsat_assumptions) - 1)
                  ELSE {-1} :
       LET q == [i \in 1 .. Len(unsat_assumptions) |->
                   internalLit(unsat_assumptions[i])]
           m == minimizeCore(q, tests)
       IN /\ gnf' = write_out([t |-> "minimize_core",
                                lits |-> [i \in 1 .. Len(q) |-> dimacs_S(q[i])]])
          /\ last_solution_optimal' = (m.r # l_Undef)
          /\ has_conflict_clause_from_last_solution' = (m.r # l_True)
          /\ conflict' = IF m.r # l_True
                         THEN { neg(m.core[i]) : i \in 1 .. Len(m.core) }
                         ELSE {}
          /\ model' = IF m.r = l_True
                      THEN ModelOf(CHOOSE A \in Assignments : Satisfies(A, SeqLits(q)))
                      ELSE <<>>
          /\ last' = Call(op, Len(m.core), unsat_assumptions,
                          storeCore(unsat_assumptions, m.core))
  /\ UNCHANGED << nVars, edges, reachLits, clauses, learnts, okay, dirty,
                  conflict_budget, propagation_budget, asynch_interrupt,
                  assumptions, pending, pc >>
  /\ \E cur_time \in CpuTimes :
       proc' = disableResourceLimits(enableResourceLimits(proc, cur_time))
  /\ UNCHANGED quietVars

MinimizeUnsatCore(unsat_assumptions) ==
  minimizeUnsatCore_from("minimizeUnsatCore", unsat_assumptions)

\* Variant: the literals of the conflict clause themselves are assumed.
conflictAssumptions_plain ==
  LET all == SortedSeq(conflict)
  IN [i \in 1 .. Len(all) |-> externalLit(all[i])]

\* minimizeConflictClause: the assumptions it builds from S->conflict, the
\* negation of each literal of the clause as an external literal.
conflictAssumptions ==
  LET all == SortedSeq(conflict)
  IN [i \in 1 .. Len(all) |-> externalLit(neg(all[i]))]

\* void minimizeConflictClause(S): last.ret is the size minimizeUnsatCore
\* returned (-1 when it was not called), last.arg the assumptions handed to it.
MinimizeConflictClause ==
  IF has_conflict_clause_from_last_solution
  THEN minimizeUnsatCore_from("minimizeConflictClause", conflictAssumptions)
  ELSE /\ pc = "idle"
       /\ last' = Call("minimizeConflictClause", -1, <<>>, <<>>)
       /\ UNCHANGED << problemVars, learnts, okay, trail, trail_lim, elog,
                       under, over, dirty, runVars, apiVars, otherVars >>

(* --------------------------- the specifications ------------------------ *)
\* The engine's search loop without limits.
Search ==
  \/ Propagate
  \/ TheoryPropagate
  \/ Learn
  \/ DecideAssumption
  \/ Decide
  \/ FinishSat

\* The caps a run stays under: variables, stored clauses, solve calls.
VarRoom == nVars < MaxVars

\* The graph is built before the first solve: the specification does not say
\* what becomes of a reach literal implied at the root when an edge is added.
GraphOpen == nSolves = 0
ClauseRoom(c) ==
  \/ Cardinality(clauses \cup {{ internalLit(l) : l \in c }}) <= MaxClauses
  \/ ~Solver_addClause(Cur, { internalLit(l) : l \in c }).keep

\* Building a problem over a graph and solving it under assumptions.
Next ==
  \/ VarRoom /\ NewVar
  \/ \E p \in NodePairs : GraphOpen /\ VarRoom /\ NewEdge(p[1], p[2])
  \/ \E p \in NodePairs : (VarRoom \/ hasReach(p[1], p[2])) /\ Reaches(p[1], p[2])
  \/ \E c \in ClauseInputs : ClauseRoom(c) /\ AddClause(c)
  \/ Backtrack
  \/ \E a \in DistinctVarSeqs(MaxAssumps) : nSolves < MaxSolves /\ SolveBegin(a)
  \/ Search

Spec == Init /\ [][Next]_vars

\* Solving a graph problem under conflict / propagation limits and interrupts.
NextLimits ==
  \/ \E p \in NodePairs : GraphOpen /\ VarRoom /\ NewEdge(p[1], p[2])
  \/ \E p \in NodePairs : (VarRoom \/ hasReach(p[1], p[2])) /\ Reaches(p[1], p[2])
  \/ \E n \in BudgetInputs : SetConflictLimit(n)
  \/ \E n \in BudgetInputs : SetPropagationLimit(n)
  \/ \E a \in DistinctVarSeqs(MaxAssumps) :
       nSolves < MaxLimitedSolves /\ SolveBegin(a)
  \/ Search
  \/ Stop
  \/ Interrupt

SpecLimits == Init /\ [][NextLimits]_vars

\* Minimizing assumption cores of a propositional problem.
NextCore ==
  \/ VarRoom /\ NewVar
  \/ \E c \in ClauseInputs : ClauseRoom(c) /\ AddClause(c)
  \/ \E n \in BudgetInputs : SetConflictLimit(n)
  \/ \E a \in DistinctVarSeqs(MaxCoreLen) :
       nSolves < MaxSolves /\ MinimizeUnsatCore(a)

SpecCore == Init /\ [][NextCore]_vars

\* Minimizing the conflict clause a core minimization has left.
MaxConflictCalls == 3
NextConflict ==
  \/ VarRoom /\ NewVar
  \/ \E c \in ClauseInputs : ClauseRoom(c) /\ AddClause(c)
  \/ \E n \in BudgetInputs : SetConflictLimit(n)
  \/ \E a \in DistinctVarSeqs(MaxCoreLen) :
       nSolves < MaxSolves /\ MinimizeUnsatCore(a)
  \/ nSolves < MaxConflictCalls /\ MinimizeConflictClause

SpecConflict == Init /\ [][NextConflict]_vars

\* A client that asks for the constant-true literal and sets, changes and
\* closes the output file in any order, while it builds a graph.
MaxTrueLines == 4
NextTrue ==
  \/ VarRoom /\ NewVar
  \/ \E p \in NodePairs : VarRoom /\ Len(gnf) < MaxTrueLines /\ NewEdge(p[1], p[2])
  \/ (VarRoom \/ const_true # lit_Undef) /\ True_lit
  \/ SetOutputFile
  \/ SetOutputFile_none

SpecTrue == Init /\ [][NextTrue]_vars

\* A solver right after newSolver(): no graph and no bitvector theory.
InitTheories ==
  /\ SolverInit
  /\ ApiTablesInit(NumNodes)
  /\ TheoryTablesInit
  /\ ProcInit(Rlimit(RLIM_INFINITY, RLIM_INFINITY),
              Rlimit(RLIM_INFINITY, RLIM_INFINITY), SIG_DFL)
  /\ reader = NoRead
  /\ optimization_objectives = <<>>
  /\ bv_theory = 0
  /\ graphs = <<>>

\* A client, traced or not, that makes graphs and the bitvector theory in
\* any order, a bitvector once the theory is there, and posts bitvector
\* objectives for any id.
MaxGraphs == 2
MaxObjectives == 2
MaxObjLines == 4
ObjectiveIds == 0 .. 1
NextTheories ==
  \/ gnf = <<>> /\ ~outfile /\ SetOutputFile
  \/ Len(graphs) < MaxGraphs /\ NewGraph
  \/ InitBVTheory
  \/ bv_theory # 0 /\ bvs = <<>> /\ NewBitvector_const(0)
  \/ \E b \in ObjectiveIds :
       /\ Len(optimization_objectives) < MaxObjectives
       /\ Len(gnf) < MaxObjLines
       /\ MaximizeBV(b)
  \/ \E b \in ObjectiveIds :
       /\ Len(optimization_objectives) < MaxObjectives
       /\ Len(gnf) < MaxObjLines
       /\ MinimizeBV(b)

SpecTheories == InitTheories /\ [][NextTheories]_vars

\* readGNF on a fresh solver, for every file of GnfFiles.
InitRead ==
  /\ SolverInit
  /\ ApiTablesInit(NumNodes)
  /\ TheoryTablesInit
  /\ ProcInit(Rlimit(RLIM_INFINITY, RLIM_INFINITY),
              Rlimit(RLIM_INFINITY, RLIM_INFINITY), SIG_DFL)
  /\ optimization_objectives = <<>>
  /\ bv_theory = 1
  /\ graphs = << 1 >>
  /\ \E f \in GnfFiles, t \in BOOLEAN :
       reader = [NoRead EXCEPT !.at = "parse", !.file = f, !.trailing = t]

NextRead ==
  \/ ReadGNF_parse
  \/ ReadGNF_solve
  \/ ReadGNF_solved
  \/ DecideAssumption
  \/ Decide
  \/ FinishSat

SpecRead == InitRead /\ [][NextRead]_vars

\* The chain 0 -> 1 -> 2 -> 3 on four nodes: the state after newEdge(0,1),
\* newEdge(1,2), newEdge(2,3). The predicate r = reach(0, 3) is posted next.
InitChain ==
  /\ nVars = 3
  /\ edges = << [from |-> 0, to |-> 1, v |-> 0], [from |-> 1, to |-> 2, v |-> 1],
                [from |-> 2, to |-> 3, v |-> 2] >>
  /\ reachLits = {}
  /\ clauses = {}
  /\ learnts = {}
  /\ okay = TRUE
  /\ trail = <<>>
  /\ trail_lim = <<>>
  /\ elog = <<>>
  /\ under = {}
  /\ over = {1, 2, 3}
  /\ dirty = TRUE
  /\ model = <<>>
  /\ conflict = {}
  /\ has_conflict_clause_from_last_solution = FALSE
  /\ last_solution_optimal = TRUE
  /\ conflict_budget = -1
  /\ propagation_budget = -1
  /\ asynch_interrupt = FALSE
  /\ assumptions = <<>>
  /\ pending = {}
  /\ pc = "idle"
  /\ snap = <<>>
  /\ nSolves = 0
  /\ last = NoCall
  /\ ApiInitOn(4)

NextChain ==
  \/ reachLits = {} /\ Reaches(0, 3)
  \/ \E c \in ClauseInputs : ClauseRoom(c) /\ AddClause(c)
  \/ Backtrack
  \/ \E a \in DistinctVarSeqs(MaxAssumps) : nSolves < MaxSolves /\ SolveBegin(a)
  \/ Search

SpecChain == InitChain /\ [][NextChain]_vars


(* ----------------- more than one plugin: graph and edge sets ----------- *)
\* The search loop with every registered plugin.
SearchAll ==
  \/ Search
  \/ PluginPropagate

MaxRoundVars == 5
RoundRoom(n) == nVars + n <= MaxRoundVars

\* Two nodes, parallel edges between them, an enforced edge set over the
\* edges, a reach predicate, solved under assumptions.
NextRound ==
  \/ \E p \in NodePairs : GraphOpen /\ amo = <<>> /\ VarRoom /\ NewEdge(p[1], p[2])
  \/ \E c \in ClauseInputs : amo = <<>> /\ ClauseRoom(c) /\ AddClause(c)
  \/ \E s \in EdgeSetInputs, f \in BOOLEAN :
       GraphOpen /\ edgeSets = <<>> /\ RoundRoom(Len(s)) /\ NewEdgeSet(s, f)
  \/ \E p \in NodePairs :
       (RoundRoom(1) \/ hasReach(p[1], p[2])) /\ amo # <<>> /\ Reaches(p[1], p[2])
  \/ \E a \in DistinctVarSeqs(MaxAssumps) :
       nSolves < MaxSolves /\ amo # <<>> /\ SolveBegin(a)
  \/ SearchAll

SpecRound == Init /\ [][NextRound]_vars


(* ------------------------- replaying a written trace ------------------- *)
\* The DIMACS numbers a line mentions.
LineLits(ln) ==
  IF ln.t \in {"edge", "reach", "bv const op"} THEN {ln.lit}
  ELSE IF ln.t = "clause" THEN ln.lits
  ELSE IF ln.t \in {"edge_set", "solve"} THEN { ln.lits[i] : i \in 1 .. Len(ln.lits) }
  ELSE {}

Abs(n) == IF n < 0 THEN -n ELSE n
ReplayVars(lines) ==
  1 .. MaxOf({ Abs(d) : d \in UNION { LineLits(lines[i]) : i \in 1 .. Len(lines) } }
             \cup {0})

\* The value of a DIMACS literal under an assignment of the replayed variables.
HoldsIn(A, d) == IF d > 0 THEN A[d] ELSE ~A[-d]

RECURSIVE PairClosure(_, _, _)
PairClosure(E, R, n) ==
  IF n = 0 THEN R
  ELSE LET R2 == R \cup { p[2] : p \in { x \in E : x[1] \in R } }
       IN IF R2 = R THEN R ELSE PairClosure(E, R2, n - 1)

\* What the lines the parser has read so far demand of an assignment: each
\* line is given to the solver as the call that wrote it; `enforce` is
\* whether the parser makes the edge sets it reads enforced ones.
ReplaySatisfies(A, lines, enforce) ==
  LET Of(k) == { i \in 1 .. Len(lines) : lines[i].t = k }
      E == { << lines[i].from, lines[i].to >> :
               i \in { j \in Of("edge") : HoldsIn(A, lines[j].lit) } }
      bvVal(id) == lines[CHOOSE i \in Of("bv const") : lines[i].id = id].val
  IN /\ \A i \in Of("clause") : \E d \in lines[i].lits : HoldsIn(A, d)
     /\ \A i \in Of("reach") :
          HoldsIn(A, lines[i].lit)
            = (lines[i].to \in PairClosure(E, {lines[i].from}, Cardinality(E) + 1))
     /\ \A i \in Of("bv const op") :
          HoldsIn(A, lines[i].lit)
            = (IF lines[i].op = ">=" THEN bvVal(lines[i].bv) >= lines[i].k
               ELSE bvVal(lines[i].bv) > lines[i].k)
     /\ enforce =>
          \A i \in Of("edge_set") :
            Cardinality({ j \in 1 .. Len(lines[i].lits) :
                            HoldsIn(A, lines[i].lits[j]) }) = 1

\* readGNF(S, filename) on a fresh solver, for a file that ends with a solve
\* line: the verdict of solveAssumptions at that line.
readGNF(lines, enforce) ==
  LET n == Len(lines)
      before == SubSeq(lines, 1, n - 1)
      assumps == lines[n].lits
  IN IF \E A \in [ReplayVars(lines) -> BOOLEAN] :
          /\ ReplaySatisfies(A, before, enforce)
          /\ \A i \in 1 .. Len(assumps) : HoldsIn(A, assumps[i])
     THEN l_True ELSE l_False

(* ------------------ a traced run over every kind of call --------------- *)
MaxTraceVars == 4
MaxLines == 6
TraceRoom(n) == nVars + n <= MaxTraceVars
LineRoom(n) == outfile /\ Len(gnf) + n <= MaxLines
Fresh == nVars = 0 /\ bvs = <<>> /\ clauses = {}
CmpRoom == Cardinality(bvCmps) < MaxCmps

\* A client that sets an output file first, then builds FSM states,
\* variables, a graph with an edge set, constant bitvectors with comparison
\* literals and unit clauses, and solves under at most one assumption.
NextTrace ==
  \/ Fresh /\ fsms = <<>> /\ ~outfile /\ SetOutputFile
  \/ Fresh /\ fsms = <<>> /\ LineRoom(1) /\ NewFSM
  \/ \E f \in 0 .. (Len(fsms) - 1) : Fresh /\ fsms[f + 1] = 0 /\ NewState(f)
  \/ outfile /\ Fresh /\ NewVar
  \/ \E p \in NodePairs :
       GraphOpen /\ bvs = <<>> /\ TraceRoom(1) /\ LineRoom(1) /\ NewEdge(p[1], p[2])
  \/ \E s \in EdgeSetInputs, f \in BOOLEAN :
       GraphOpen /\ edgeSets = <<>> /\ TraceRoom(Len(s)) /\ LineRoom(1)
         /\ NewEdgeSet(s, f)
  \/ \E p \in NodePairs :
       /\ (TraceRoom(1) /\ LineRoom(1)) \/ hasReach(p[1], p[2])
       /\ bvs = <<>>
       /\ Reaches(p[1], p[2])
  \/ \E k \in BvVals :
       nSolves = 0 /\ Len(bvs) < MaxBvs /\ LineRoom(1) /\ NewBitvector_const(k)
  \/ \E b \in BvIds, k \in BvVals :
       /\ nSolves = 0 /\ CmpRoom /\ TraceRoom(1) /\ LineRoom(1)
       /\ NewBVComparison_const_geq(b, k)
  \/ \E b \in BvIds, k \in BvVals :
       /\ nSolves = 0 /\ CmpRoom /\ TraceRoom(1) /\ LineRoom(1)
       /\ NewBVComparison_const_gt(b, k)
  \/ \E b \in BvIds, k \in BvVals :
       /\ nSolves = 0 /\ bvCmps = {} /\ TraceRoom(3) /\ LineRoom(2)
       /\ NewBVComparison_const_eq(b, k)
  \/ \E c \in ClauseInputs :
       Cardinality(c) = 1 /\ ClauseRoom(c) /\ LineRoom(1) /\ AddClause(c)
  \/ \E a \in DistinctVarSeqs(1) : nSolves < MaxSolves /\ LineRoom(1) /\ SolveBegin(a)
  \/ SearchAll

SpecTrace == Init /\ [][NextTrace]_vars


(* -------------------- allocating variables of every kind --------------- *)
MaxMapVars == 6
MapRoom(n) == nVars + n <= MaxMapVars

\* Calls that allocate variables, without an output file: plain variables,
\* edges, the solver-only variables of an edge set, reach predicates and
\* bitvector comparison literals.
NextMap ==
  \/ MapRoom(1) /\ NewVar
  \/ \E p \in NodePairs : MapRoom(1) /\ NewEdge(p[1], p[2])
  \/ \E s \in EdgeSetInputs, f \in BOOLEAN :
       edgeSets = <<>> /\ MapRoom(Len(s)) /\ NewEdgeSet(s, f)
  \/ \E p \in NodePairs : (MapRoom(1) \/ hasReach(p[1], p[2])) /\ Reaches(p[1], p[2])
  \/ \E k \in BvVals : Len(bvs) < MaxBvs /\ NewBitvector_const(k)
  \/ \E b \in BvIds, k \in BvVals : MapRoom(1) /\ NewBVComparison_const_geq(b, k)
  \/ \E b \in BvIds, k \in BvVals : MapRoom(1) /\ NewBVComparison_const_gt(b, k)
  \/ \E b \in BvIds, k \in BvVals : MapRoom(3) /\ NewBVComparison_const_eq(b, k)

SpecMap == Init /\ [][NextMap]_vars


(* ----------------------- posting graph predicates ---------------------- *)
MaxPredVars == 3
MaxSteps == 2
MaxWeight == 1
PredRoom == nVars < MaxPredVars
StepInputs == 0 .. MaxSteps
WeightInputs == 1 .. MaxWeight

\* A client that posts predicates of every kind on one graph, some of them
\* more than once. No solve follows: only the predicates' literals matter.
NextPreds ==
  \/ \E p \in NodePairs : (PredRoom \/ hasReach(p[1], p[2])) /\ Reaches(p[1], p[2])
  \/ \E p \in NodePairs :
       (PredRoom \/ hasPred("reach_backward", <<p[1], p[2]>>))
         /\ ReachesBackward(p[1], p[2])
  \/ \E p \in NodePairs, n \in Nodes :
       (PredRoom \/ hasPred("on_path", <<n, p[1], p[2]>>)) /\ OnPath(n, p[1], p[2])
  \/ \E p \in NodePairs, k \in StepInputs :
       (PredRoom \/ hasReachWithin(p[1], p[2], k - 1))
         /\ ShortestPathUnweighted_lt_const(p[1], p[2], k)
  \/ \E p \in NodePairs, k \in StepInputs :
       (PredRoom \/ hasReachWithin(p[1], p[2], k))
         /\ ShortestPathUnweighted_leq_const(p[1], p[2], k)
  \/ \E p \in NodePairs, w \in WeightInputs :
       (PredRoom \/ hasPred("distance", <<p[1], p[2], w, FALSE>>))
         /\ ShortestPath_lt_const(p[1], p[2], w)
  \/ \E p \in NodePairs, w \in WeightInputs :
       (PredRoom \/ hasPred("distance", <<p[1], p[2], w, TRUE>>))
         /\ ShortestPath_leq_const(p[1], p[2], w)
  \/ \E p \in NodePairs, w \in WeightInputs :
       (PredRoom \/ hasPred("maxflow", <<p[1], p[2], w, TRUE>>))
         /\ MaximumFlow_geq(p[1], p[2], w)
  \/ \E p \in NodePairs, w \in WeightInputs :
       (PredRoom \/ hasPred("maxflow", <<p[1], p[2], w, FALSE>>))
         /\ MaximumFlow_gt(p[1], p[2], w)
  \/ (PredRoom \/ hasPred("acyclic", <<FALSE>>)) /\ Acyclic_undirected
  \/ (PredRoom \/ hasPred("acyclic", <<TRUE>>)) /\ Acyclic_directed

SpecPreds == Init /\ [][NextPreds]_vars

\* A traced client that posts reach, hop-count and bitvector-distance
\* predicates on one graph, some of them more than once.
MaxBvPredVars == 3
MaxBvPredLines == 5
BvPredRoom == nVars < MaxBvPredVars /\ Len(gnf) < MaxBvPredLines
NextBvPreds ==
  \/ nVars = 0 /\ bvs = <<>> /\ ~outfile /\ SetOutputFile
  \/ nVars = 0 /\ bvs = <<>> /\ outfile /\ NewBitvector_const(0)
  \/ \E p \in NodePairs : (BvPredRoom \/ hasReach(p[1], p[2])) /\ Reaches(p[1], p[2])
  \/ \E p \in NodePairs, k \in WeightInputs :
       (BvPredRoom \/ hasReachWithin(p[1], p[2], k))
         /\ ShortestPathUnweighted_leq_const(p[1], p[2], k)
  \/ \E p \in NodePairs, b \in BvIds :
       (BvPredRoom \/ hasPred("distance_bv", <<p[1], p[2], b, FALSE>>))
         /\ ShortestPathUnweighted_lt_bv(p[1], p[2], b)
  \/ \E p \in NodePairs, b \in BvIds :
       \/ BvPredRoom /\ ShortestPath_lt_bv(p[1], p[2], b)
       \/ /\ hasPred("distance_bv", <<p[1], p[2], b, FALSE>>)
          /\ Len(gnf) < MaxBvPredLines
          /\ ShortestPath_lt_bv(p[1], p[2], b)
  \/ \E p \in NodePairs, b \in BvIds :
       (BvPredRoom \/ hasPred("distance_bv", <<p[1], p[2], b, TRUE>>))
         /\ ShortestPath_leq_bv(p[1], p[2], b)

SpecBvPreds == Init /\ [][NextBvPreds]_vars


(* ------------------------ naming variables and nodes ------------------- *)
MaxNamedVars == 2
MaxNodes == 4
MaxNameLines == 3
NameRoom == Len(gnf) < MaxNameLines

\* A client that names variables, or adds named nodes to the graph, with or
\* without an output file.
NextNames ==
  \/ nVars = 0 /\ Len(nodeNames) = NumNodes /\ ~outfile /\ SetOutputFile
  \/ \E s \in NameInputs :
       /\ Len(nodeNames) = NumNodes /\ NameRoom
       /\ \/ nVars < MaxNamedVars
          \/ s \notin {nullptr, <<>>} /\ (hasVariable(s) \/ HasIllegalChar(s))
       /\ NewNamedVar(s)
  \/ \E v \in ExtVars, s \in NameInputs : NameRoom /\ SetVariableName(v, s)
  \/ nVars = 0 /\ Len(nodeNames) < MaxNodes /\ NewNode
  \/ \E s \in NameInputs : nVars = 0 /\ Len(nodeNames) < MaxNodes /\ NewNode_Named(s)

SpecNames == Init /\ [][NextNames]_vars


(* ------------------------- bitvector operators ------------------------- *)
MaxOpVars == 6
MaxOps == 1
MaxOpLines == 7
OpRoom == Cardinality(bvOps) < MaxOps /\ Len(gnf) < MaxOpLines

\* A client, traced or not, that makes variables, two edges with an enforced
\* edge set (whose solver-only variables later variables come after) and a
\* bitvector, and builds popcount and unary operators over any literals.
NextBvOps ==
  \/ nVars = 0 /\ ~outfile /\ SetOutputFile
  \/ nVars < MaxOpVars /\ bvOps = {} /\ NewVar
  \/ \E p \in NodePairs : Len(edges) < 2 /\ nVars < 2 /\ NewEdge(p[1], p[2])
  \/ \E s \in EdgeSetInputs : amo = <<>> /\ nVars < 4 /\ NewEdgeSet(s, TRUE)
  \/ bvs = <<>> /\ NewBitvector_const(0)
  \/ \E a \in ArgInputs, b \in BvIds : OpRoom /\ Bv_popcount(a, b)
  \/ \E a \in ArgInputs, b \in BvIds : OpRoom /\ Bv_unary(a, b)

SpecBvOps == Init /\ [][NextBvOps]_vars

\* A client, traced or not, that makes variables and a bitvector and builds
\* if-then-else operators on any literal of its variables.
MaxIteVars == 3
MaxIteOps == 2
NextIte ==
  \/ nVars = 0 /\ ~outfile /\ SetOutputFile
  \/ nVars < MaxIteVars /\ bvOps = {} /\ NewVar
  \/ bvs = <<>> /\ NewBitvector_const(0)
  \/ \E c \in ExtLits, b \in BvIds :
       Cardinality(bvOps) < MaxIteOps /\ Len(gnf) <= MaxIteOps + 1 /\ Bv_ite(c, b, b, b)

SpecIte == Init /\ [][NextIte]_vars

(* ------------------------------- edge sets ----------------------------- *)
MaxSetVars == 5
Building == edgeSets = <<>> /\ last.op # "newEdgeSet"

\* What a caller may list: literals of the variables handed out and of the
\* next number, which no call handed out.
AnyEdgeSetInputs ==
  UNION { [1 .. n -> { mkLit(v, s) : v \in 0 .. Cardinality(Mapped), s \in BOOLEAN }] :
            n \in 1 .. 2 }

\* A client, traced or not, that makes a plain variable, edges, a reach
\* predicate and a bitvector comparison, in this order, and lists any of
\* their literals in edge sets, in a traced run once.
NextEdgeSets ==
  \/ nVars = 0 /\ ~outfile /\ Building /\ SetOutputFile
  \/ nVars = 0 /\ Building /\ NewVar
  \/ \E p \in NodePairs :
       Len(edges) < 2 /\ reachLits = {} /\ bvs = <<>> /\ Building /\ NewEdge(p[1], p[2])
  \/ reachLits = {} /\ bvs = <<>> /\ Building /\ Reaches(0, 1)
  \/ bvs = <<>> /\ Building /\ NewBitvector_const(0)
  \/ \E b \in BvIds : bvCmps = {} /\ Building /\ NewBVComparison_const_geq(b, 0)
  \/ \E s \in AnyEdgeSetInputs, f \in BOOLEAN :
       /\ edgeSets = <<>> /\ nVars + Len(s) <= MaxSetVars + 2
       /\ outfile => last.op # "newEdgeSet"
       /\ NewEdgeSet(s, f)

SpecEdgeSets == Init /\ [][NextEdgeSets]_vars

(* ----------------- bitvectors compared for equality -------------------- *)
MaxBitVars == 2
MaxEqBvs == 2
BitInputs ==
  { q \in UNION { [1 .. n -> Vars] : n \in 1 .. MaxBitVars } :
      \A i, j \in 1 .. Len(q) : q[i] = q[j] => i = j }
NoCmps == bvCmps = {} /\ bvBvCmps = {}
EqRoom == clauses = {} /\ Cardinality(bvBvCmps) <= 1 /\ bvCmps = {}

\* A client that makes bit variables, bitvectors of every kind, at most one
\* plain comparison, and then one equality or disequality literal.
NextBvEq ==
  \/ nVars < MaxBitVars /\ bvs = <<>> /\ NewVar
  \/ \E q \in BitInputs : Len(bvs) < MaxEqBvs /\ NoCmps /\ NewBitvector(q)
  \/ Len(bvs) < MaxEqBvs /\ NoCmps /\ NewBitvector_anon
  \/ \E k \in BvVals : Len(bvs) < MaxEqBvs /\ NoCmps /\ NewBitvector_const(k)
  \/ \E b, d \in BvIds : NoCmps /\ NewBVComparison_bv_geq(b, d)
  \/ \E b, d \in BvIds : NoCmps /\ NewBVComparison_bv_gt(b, d)
  \/ \E b \in BvIds, k \in BvVals : EqRoom /\ NewBVComparison_const_eq(b, k)
  \/ \E b \in BvIds, k \in BvVals : EqRoom /\ NewBVComparison_const_neq(b, k)
  \/ \E b, d \in BvIds : EqRoom /\ NewBVComparison_bv_eq(b, d)
  \/ \E b, d \in BvIds : EqRoom /\ NewBVComparison_bv_neq(b, d)

SpecBvEq == Init /\ [][NextBvEq]_vars

(* ------------------------- flows and their cuts ------------------------ *)
\* The edges the object is given, and their capacities.
FlowEdges == { << 0, 1 >>, << 0, 2 >>, << 1, 2 >>, << 1, 3 >>, << 2, 3 >> }
Capacities == 0 .. MaxCap
\* The sources and sinks asked about: across the graph, from the middle,
\* to the middle, and against the edges.
Terminals == { << 0, 3 >>, << 1, 3 >>, << 0, 2 >>, << 3, 0 >> }
NextFlow ==
  \/ \E e \in FlowEdges, c \in Capacities : SetCapacity(e[1], e[2], c)
  \/ \E c \in Capacities : DOMAIN capacity # {} /\ SetAllEdgeCapacities(c)
  \/ \E q \in Terminals : MaxFlow(q[1], q[2])
  \/ \E q \in Terminals : MinCut(q[1], q[2])

SpecFlow == Init /\ [][NextFlow]_vars

(* ------------------------ the process and its limits ------------------- *)
MaxProcSolves == 2
\* The limits a process may start with (soft within hard), the dispositions
\* of SIGXCPU a client may have installed, and the limits it may configure.
PriorCpu == { Rlimit(RLIM_INFINITY, RLIM_INFINITY), Rlimit(1, RLIM_INFINITY),
              Rlimit(1, 2), Rlimit(2, 2) }
PriorAs == { Rlimit(RLIM_INFINITY, RLIM_INFINITY), Rlimit(MiB, 2 * MiB) }
PriorHandlers == { SIG_DFL, SIG_IGN, UserHandler }
TimeLimits == { -1, 0, 2 }
MemoryLimits == { -1, 1, 3 }
Handles == 1 .. MaxSolvers
NoCall_inProgress == pc = "idle" /\ call = NoApiCall
CanSolve == NoCall_inProgress /\ nSolves < MaxProcSolves

InitProc ==
  /\ SolverInit
  /\ ApiTablesInit(NumNodes)
  /\ MoreTablesInit
  /\ \E cpu \in PriorCpu, as \in PriorAs, h \in PriorHandlers : ProcInit(cpu, as, h)

\* A client with up to MaxSolvers solvers that sets limits through any of
\* them and solves with solver 1, while SIGXCPU may arrive.
NextProc ==
  \/ \E S \in Handles, seconds \in TimeLimits :
       NoCall_inProgress /\ Alive(S) /\ SetTimeLimit(S, seconds)
  \/ \E S \in Handles, mb \in MemoryLimits :
       NoCall_inProgress /\ Alive(S) /\ SetMemoryLimit(S, mb)
  \/ \E S \in OtherSolvers : NewSolver_new(S)
  \/ NewSolver_insert
  \/ \E S \in OtherSolvers : Alive(S) /\ DeleteSolver_interrupt(S)
  \/ DeleteSolver_erase
  \/ DeleteSolver_delete
  \/ SIGNAL_HANDLER
  \/ CanSolve /\ SolveBegin(<<>>)
  \/ CanSolve /\ SolveAbort(<< mkLit(0, FALSE) >>)
  \/ CanSolve /\ MinimizeUnsatCore(<<>>)
  \/ FinishSat
  \/ Stop

SpecProc == InitProc /\ [][NextProc]_vars

(* ------------------------------- claims -------------------------------- *)
SolvedWith(r) == last.op = "solve" /\ last.ret = r
ModelTrue(l) == getModel_Literal(externalLit(l)) = l_True
ModelGraph == { e \in EdgeIds : ModelTrue(edgeLit(e)) }

CoreAssumptions == { neg(internalLit(l)) : l \in getConflictClause }

\* C2: whenever a solve under assumptions returns UNSAT, getConflictClause
\* holds only negations of assumptions of that solve, and the problem is
\* unsatisfiable under those core assumptions alone.
C2_CoreWithinAssumptions ==
  SolvedWith(l_False) =>
    /\ getConflictClause_ret = Cardinality(getConflictClause)
    /\ CoreAssumptions \subseteq SeqLits(last.arg)
    /\ ~Satisfiable(CoreAssumptions)

C2_Witness ==
  /\ SolvedWith(l_False)
  /\ Len(last.arg) = 2
  /\ Cardinality(getConflictClause) = 1
  /\ okay

\* C4: root-level unsatisfiability is permanent: a clause addition that
\* returned false leaves ok() false, no later call makes ok() true again, and
\* every solve finished while ok() is false returns UNSAT.
C4_RootUnsatPermanent ==
  [][ /\ (last'.op = "addClause" /\ last'.ret = 0) => ~ok'
      /\ ~ok => (~ok' /\ (last'.op = "solve" => last'.ret = l_False)) ]_vars

C4_Witness ==
  /\ ~ok
  /\ clauses = {}
  /\ SolvedWith(l_False)
  /\ Len(last.arg) > 0

\* C8: in every reachable state the under-approximate view holds exactly the
\* edges whose literal is true and the over-approximate view exactly the edges
\* whose literal is not false, so under is within over.
C8_ViewsMatchAssignment ==
  /\ under = UnderOn(trail)
  /\ over = OverOn(trail)
  /\ under \subseteq over

C8_Witness ==
  /\ decisionLevel >= 1
  /\ under # {}
  /\ over # EdgeIds
  /\ Len(edges) >= 2

\* C10: every assignment on the trail that has a clause or a lazy theory
\* reason is justified by it: the literal is in the reason clause (the clause
\* explain builds, for a theory reason) and every other literal of the clause
\* is false, assigned earlier on the trail at a level not above its own.
C10_ReasonsJustify ==
  \A i \in 1 .. Len(trail) :
    trail[i].reason.t \in {"clause", "theory", "bv", "amo"} =>
      LET C == ReasonClause(trail, i)
      IN /\ trail[i].lit \in C
         /\ \A m \in C \ {trail[i].lit} :
              /\ valueOn(trail, m) = l_False
              /\ PosOf(trail, var(m)) < i
              /\ LevelOf(trail, var(m)) <= trail[i].level

C10_Witness ==
  /\ \E i \in 1 .. Len(trail) :
       trail[i].reason.t = "theory" /\ Cardinality(ReasonClause(trail, i)) >= 2
  /\ \E i \in 1 .. Len(trail) :
       trail[i].reason.t = "clause" /\ Cardinality(ReasonClause(trail, i)) >= 2


\* The trail and the plugin's log and views are those of st.
SameState(st, tr, lim, log, un, ov) ==
  /\ tr = st.trail
  /\ lim = st.lim
  /\ log = st.elog
  /\ un = st.under
  /\ ov = st.over

\* A step that only cancels decision levels (cancelUntil to the level reached).
Cancels == decisionLevel' < decisionLevel /\ clauses' = clauses

\* C7 (amended): after cancelUntil(L) for L below the current level, the trail
\* and the graph plugin's log and views are identical to their state at the
\* moment level L was left, that is when level L + 1 was opened; backtrack()
\* does this with L = 0.
C7_CancelRestoresLevel ==
  [][ /\ Cancels =>
           LET s == snap[decisionLevel' + 1]
           IN SameState(s, trail', trail_lim', elog', under', over')
      /\ Backtrack => decisionLevel' = 0 ]_vars

C7_Witness ==
  /\ pc = "learn"
  /\ decisionLevel >= 1
  /\ Len(trail) > trail_lim[decisionLevel]
  /\ elog # <<>>

\* C7 as stated: after cancelUntil(L), here for L >= 1, the trail and the
\* plugin state are identical to their state at the moment level L was first
\* entered, that is before its decision and what follows from it were assigned.
C7_AsStated ==
  [][ (Cancels /\ decisionLevel' >= 1) =>
        LET s == snap[decisionLevel']
        IN SameState(s, trail', SubSeq(trail_lim', 1, decisionLevel' - 1),
                     elog', under', over') ]_vars


\* C5: a solve that stops because the conflict or propagation budget is used
\* up or the interrupt flag is raised returns UNKNOWN, and a solve that returns
\* UNKNOWN leaves the trail at decision level 0 and ok() as it was; a solve
\* that ends with no limit set and no interrupt returns SAT or UNSAT, also
\* after an earlier UNKNOWN.
C5_LimitStopsAreUnknown ==
  [][ (pc = "search" /\ pc' = "idle") =>
        /\ (AtFixedPoint /\ ~withinBudget) => last'.ret = l_Undef
        /\ last'.ret = l_Undef => (decisionLevel' = 0 /\ ok' = ok)
        /\ (conflict_budget = -1 /\ propagation_budget = -1 /\ ~asynch_interrupt)
             => last'.ret \in {l_True, l_False} ]_vars

C5_Witness ==
  /\ SolvedWith(l_True)
  /\ last.prev = l_Undef
  /\ learnts # {}

\* C6: model and conflict queries expose only finished results: nothing while
\* a solve runs; after a SAT solve a value for every literal and no conflict;
\* after an UNSAT or UNKNOWN solve no model at all (hasModel is false and
\* getModel_Literal is undefined for every literal), with a conflict clause
\* exactly when the solve was UNSAT.
C6_OnlyFinishedResults ==
  /\ pc # "idle" => (~hasModel /\ getConflictClause_ret = -1)
  /\ SolvedWith(l_True) =>
       /\ \A l \in Lits : getModel_Literal(externalLit(l)) \in {l_True, l_False}
       /\ getConflictClause_ret = -1
  /\ (SolvedWith(l_False) \/ SolvedWith(l_Undef)) =>
       /\ ~hasModel
       /\ \A l \in Lits : getModel_Literal(externalLit(l)) = l_Undef
       /\ (getConflictClause_ret # -1) = (last.ret = l_False)

C6_Witness ==
  /\ SolvedWith(l_Undef)
  /\ conflict_budget = 0
  /\ trail # <<>>


\* The first k entries of the caller's array after minimizeUnsatCore, and the
\* assumptions passed in, as internal literals.
ReturnedCore == [i \in 1 .. last.ret |-> internalLit(last.out[i])]
GivenAssumptions == { internalLit(last.arg[i]) : i \in 1 .. Len(last.arg) }
Minimized == last.op = "minimizeUnsatCore" /\ ~Satisfiable(GivenAssumptions)
NoneDroppable(q) == \A i \in 1 .. Len(q) : Satisfiable(SeqLits(RemoveAt(q, i)))

\* C3 (amended): minimizeUnsatCore on an unsatisfiable assumption list of
\* length n returns k <= n and leaves in the first k entries literals of the
\* input under which the problem is still unsatisfiable; when the minimization
\* was not cut short by a budget (lastSolutionWasOptimal), no literal can be
\* dropped from them.
C3_CoreMinimized ==
  Minimized =>
    /\ last.ret <= Len(last.arg)
    /\ SeqLits(ReturnedCore) \subseteq GivenAssumptions
    /\ ~Satisfiable(SeqLits(ReturnedCore))
    /\ last_solution_optimal => NoneDroppable(ReturnedCore)

\* [x, y, z] where only x and z together are unsatisfiable comes back as [x, z].
C3_Witness ==
  /\ Minimized
  /\ last_solution_optimal
  /\ Len(last.arg) = 3
  /\ last.ret = 2
  /\ last.out[1] = last.arg[1]
  /\ last.out[2] = last.arg[3]
  /\ Satisfiable({internalLit(last.arg[1]), internalLit(last.arg[2])})
  /\ Satisfiable({internalLit(last.arg[2]), internalLit(last.arg[3])})

\* C3 as stated: the returned literals are minimal after every call.
C3_AsStated ==
  Minimized =>
    /\ last.ret <= Len(last.arg)
    /\ SeqLits(ReturnedCore) \subseteq GivenAssumptions
    /\ ~Satisfiable(SeqLits(ReturnedCore))
    /\ NoneDroppable(ReturnedCore)

\* The literals of the chain: its middle edge and the predicate reach(0, 3).
Chain_e2 == edgeLit(2)
Chain_r == mkLit((CHOOSE x \in reachLits : TRUE).v, FALSE)

\* C9: at a propagation fixed point every reach literal is true when a path of
\* true edges exists and false when no path of not-false edges exists; on the
\* chain with nothing else asserted, solving under r and NOT e2 is UNSAT with
\* conflict {NOT r, e2}, that is core {r, NOT e2}.
C9_ReachForced ==
  /\ ((pc = "search" /\ AtFixedPoint) \/ SolvedWith(l_True)) =>
       \A r \in reachLits :
         /\ HasPath(UnderOn(trail), r.from, r.to) => value(mkLit(r.v, FALSE)) = l_True
         /\ ~HasPath(OverOn(trail), r.from, r.to) => value(mkLit(r.v, FALSE)) = l_False
  /\ (/\ last.op = "solve"
      /\ reachLits # {}
      /\ clauses = {}
      /\ ok
      /\ SeqLits(last.arg) = {Chain_r, neg(Chain_e2)}) =>
       /\ last.ret = l_False
       /\ getConflictClause = {externalLit(neg(Chain_r)), externalLit(Chain_e2)}

C9_Witness ==
  /\ last.op = "solve"
  /\ reachLits # {}
  /\ clauses = {}
  /\ ok
  /\ last.arg = <<Chain_r, neg(Chain_e2)>>
  /\ getConflictClause = {externalLit(neg(Chain_r)), externalLit(Chain_e2)}


(* ------------------------------ C11 ------------------------------------ *)
\* The literals of the pending learned clause that the backjump left unassigned.
PendingOpen == { l \in pending : value(l) = l_Undef }

\* C11: a conflict is analyzed into a learned clause only above decision
\* level 0; the learned clause has exactly one literal of the conflict level
\* (the UIP, the only literal the backjump unassigns), every other literal of
\* it stays false, the backjump lands on the highest level among those other
\* literals (level 0 for a unit clause), and the very next step assigns the
\* UIP at that level with the learned clause as its reason.
C11_LearnAssertsUIP ==
  [][ /\ (pc = "search" /\ pc' = "learn") =>
           /\ decisionLevel > 0
           /\ decisionLevel' < decisionLevel
      /\ (pc = "learn") =>
           /\ Cardinality(PendingOpen) = 1
           /\ \A l \in pending \ PendingOpen : value(l) = l_False
           /\ decisionLevel =
                MaxOf({ LevelOf(trail, var(l)) : l \in pending \ PendingOpen } \cup {0})
           /\ pc' = "search"
           /\ Len(trail') = Len(trail) + 1
           /\ decisionLevel' = decisionLevel
           /\ LET e == trail'[Len(trail')]
              IN /\ e.lit \in PendingOpen
                 /\ e.level = decisionLevel
                 /\ e.reason = Reason("clause", pending) ]_vars

\* A learned clause of two or more literals was asserted after a backjump
\* over more than one level.
C11_Witness ==
  /\ pc = "search"
  /\ learnts # {}
  /\ trail # <<>>
  /\ LET e == trail[Len(trail)]
     IN /\ e.reason.t = "clause"
        /\ e.reason.c \in learnts
        /\ Cardinality(e.reason.c) >= 2
        /\ e.level >= 1


\* The kinds of reason the entries a step appends to the trail carry.
Enqueued(k) ==
  \E i \in (Len(trail) + 1) .. Len(trail') : trail'[i].reason.t = k
GraphQuiet == \A l \in TheoryWants(Cur) : value(l) = l_True
PluginsQuiet(n) == \A p \in 0 .. n : \A l \in PluginWants(trail, p) : value(l) = l_True
AmoOf(l) == CHOOSE i \in 1 .. Len(amo) : var(l) \in amo[i]
EndsRound ==
  /\ pc = "search"
  /\ \/ Len(trail_lim') = Len(trail_lim) + 1
     \/ pc' = "idle" /\ last'.ret = l_True

\* C12: within a solve, a plugin's propagate is entered only when Boolean
\* propagation has nothing pending, so after a plugin enqueues literals BCP
\* runs to its fixed point before any plugin runs again; plugins are visited
\* in registration order (a plugin enqueues only when every plugin
\* registered before it has nothing to do); and a round ends without a
\* conflict (a decision is made or SAT is returned) only when BCP and every
\* plugin are at a fixed point together.
C12_RoundOrder ==
  [][ /\ (Enqueued("theory") \/ Enqueued("bv") \/ Enqueued("amo")) => ~BCPPending
      /\ Enqueued("bv") => GraphQuiet
      /\ Enqueued("amo") =>
           /\ GraphQuiet
           /\ PluginsQuiet(AmoOf(trail'[Len(trail')].lit) - 1)
      /\ EndsRound =>
           /\ ~BCPPending
           /\ GraphQuiet
           /\ PluginsQuiet(Len(amo)) ]_vars

\* A solve in which the graph plugin and the edge set's plugin both enqueued,
\* and Boolean propagation ran again after the edge set's plugin.
C12_Witness ==
  /\ pc = "search"
  /\ \E i \in 1 .. Len(trail) : trail[i].reason.t = "theory"
  /\ \E i, j \in 1 .. Len(trail) :
       /\ i < j
       /\ trail[i].reason.t = "amo"
       /\ trail[j].reason.t = "clause"


C14_LiteralEncoding ==
  \A e \in ExtLits :
    /\ var(e) = e \div 2
    /\ sign(e) = (e % 2 = 1)
    /\ varToLit(var(e), sign(e)) = e
    /\ varToLit(e \div 2, FALSE) = 2 * (e \div 2)
    /\ varToLit(e \div 2, TRUE) = 2 * (e \div 2) + 1
    /\ neg(e) = (IF e % 2 = 1 THEN e - 1 ELSE e + 1)
    /\ dimacs(e) = (IF e % 2 = 1 THEN -((e \div 2) + 1) ELSE (e \div 2) + 1)
    /\ dimacs(e) # 0
    /\ dimacs(neg(e)) = -dimacs(e)
    /\ dimacs_S(internalLit(e)) = dimacs(e)
    /\ \A f \in ExtLits : dimacs(e) = dimacs(f) => e = f

\* Several external variables exist, one of them not numbered as its
\* internal variable is.
C14_Witness ==
  /\ Cardinality(ExtVars) >= 3
  /\ \E v \in ExtVars : internalVar(v) # v


Solved == pc = "idle" /\ last.op = "solve" /\ last.ret \in {l_True, l_False}

\* C15: with an output file set, replaying the trace written so far into a
\* fresh solver gives, at each solve line, the verdict the original solve
\* returned (whichever way the parser reads an edge set line) -- also when
\* the calls include bitvector equality comparisons and enforced edge sets.
C15_ReplaySameVerdict ==
  (outfile /\ Solved) => \E f \in BOOLEAN : readGNF(gnf, f) = last.ret


\* A step that changes the constraint state: a clause, a graph object, a
\* bitvector object, an at-most-one set or an FSM object is added.
ConstraintChange ==
  \/ clauses' # clauses
  \/ edges' # edges
  \/ reachLits' # reachLits
  \/ bvs' # bvs
  \/ bvCmps' # bvCmps
  \/ amo' # amo
  \/ fsms' # fsms

NewLines == { i \in 1 .. Len(gnf') : i > Len(gnf) }

\* C16: while an output file is set, every call that changes the constraint
\* state appends a line to the trace, and every clause it gives the solver is
\* among the lines it appends.
C16_EveryChangeTraced ==
  [][ (outfile /\ ConstraintChange) =>
        /\ NewLines # {}
        /\ \A c \in clauses' \ clauses :
             \E i \in NewLines :
               /\ gnf'[i].t = "clause"
               /\ gnf'[i].lits = { dimacs_S(l) : l \in c } ]_vars


PredOps == {"reachesBackward", "onPath", "shortestPathUnweighted_lt_const",
            "shortestPathUnweighted_leq_const", "shortestPath_lt_const",
            "shortestPath_leq_const", "maximumFlow_geq", "maximumFlow_gt",
            "acyclic_undirected", "acyclic_directed"}
PredKind(op) ==
  CASE op = "reachesBackward" -> "reach_backward"
    [] op = "onPath" -> "on_path"
    [] op \in {"shortestPath_lt_const", "shortestPath_leq_const"} -> "distance"
    [] op \in {"maximumFlow_geq", "maximumFlow_gt"} -> "maxflow"
    [] OTHER -> "acyclic"
HopOps == {"shortestPathUnweighted_lt_const", "shortestPathUnweighted_leq_const"}
HopKey(c) ==
  IF c.op = "shortestPathUnweighted_lt_const" THEN c.arg[3] - 1 ELSE c.arg[3]
\* Whether the predicate the call c asks for is in the graph's tables, and
\* the variable it has there.
Posted(c) ==
  IF c.op \in HopOps THEN hasReachWithin(c.arg[1], c.arg[2], HopKey(c))
  ELSE hasPred(PredKind(c.op), c.arg)
PostedVar(c) ==
  IF c.op \in HopOps THEN reachWithinVar(c.arg[1], c.arg[2], HopKey(c))
  ELSE predVar(PredKind(c.op), c.arg)

C18_HopKeysApart ==
  /\ (last.op \in HopOps /\ last.arg[3] >= 0) =>
       LET v == internalVar(var(last.ret))
       IN /\ \E d \in distLits :
               /\ d.v = v
               /\ d.from = last.arg[1]
               /\ d.to = last.arg[2]
               /\ d.within = (IF last.op = "shortestPathUnweighted_lt_const"
                              THEN last.arg[3] - 1 ELSE last.arg[3])
          /\ \A r \in reachLits : r.v # v
  /\ \A p, q \in distLits : p.v = q.v => p.within = q.within


GivenName(name) == name # nullptr /\ Len(name) > 0
\* A character outside the printable, non-blank ASCII range '!' .. '~'.
BadName(name) == \E i \in 1 .. Len(name) : name[i] \notin 33 .. 126

\* C19: newNamedVar with a non-empty name that is already in use, or that
\* holds a non-ASCII, non-printable or whitespace character, throws and
\* creates no variable; with a null or empty name it creates an unnamed
\* variable; and whatever newNamedVar and setVariableName calls were made, no
\* two variables carry the same name and no stored name is empty.
C19_NamedVarsUnique ==
  [][ /\ (last'.op = "newNamedVar" /\ outfile' = outfile) =>
           LET name == last'.arg[1]
           IN /\ (GivenName(name) /\ (hasVariable(name) \/ BadName(name))) =>
                   /\ err' = "invalid_argument"
                   /\ nVars' = nVars
                   /\ varNames' = varNames
                   /\ gnf' = gnf
              /\ (GivenName(name) /\ ~hasVariable(name) /\ ~BadName(name)) =>
                   /\ err' = ""
                   /\ nVars' = nVars + 1
                   /\ varNames' = varNames \cup {[v |-> nVars, name |-> name]}
              /\ ~GivenName(name) =>
                   /\ err' = ""
                   /\ nVars' = nVars + 1
                   /\ varNames' = varNames
      /\ \A a, b \in varNames' : a.name = b.name => a = b
      /\ \A a \in varNames' : a.name # <<>> /\ a.v \in 0 .. (nVars' - 1) ]_vars

\* Two variables carry names, one of them given by setVariableName, and a
\* newNamedVar call with a name in use has just been refused.
C19_Witness ==
  /\ last.op = "newNamedVar"
  /\ err = "invalid_argument"
  /\ hasVariable(last.arg[1])
  /\ Cardinality(varNames) = 2
  /\ \E a \in varNames : a.name = <<200>>

\* A character outside printable ASCII ' ' .. '~'.
Unprintable(name) == \E i \in 1 .. Len(name) : name[i] \notin 32 .. 126

\* C20: within the graph every non-empty node name is unique and printable
\* ASCII: newNode_Named with a name in use or an unprintable name throws,
\* creates no node and writes nothing to the trace; with a null or empty
\* name it creates an unnamed node.
C20_NodeNamesValid ==
  [][ /\ (last'.op = "newNode_Named" /\ outfile' = outfile) =>
           LET name == last'.arg[1]
           IN /\ (GivenName(name) /\ (G_hasNamedNode(name) \/ Unprintable(name))) =>
                   /\ err' = "invalid_argument"
                   /\ nodeNames' = nodeNames
                   /\ gnf' = gnf
              /\ ~GivenName(name) =>
                   /\ err' = ""
                   /\ nodeNames' = Append(nodeNames, <<>>)
      /\ \A m, n \in 1 .. Len(nodeNames') :
           (nodeNames'[m] # <<>> /\ nodeNames'[m] = nodeNames'[n]) => m = n
      /\ \A n \in 1 .. Len(nodeNames') : ~Unprintable(nodeNames'[n]) ]_vars


\* The API call a step made, when the step is one: the opening of the output
\* file records none.
Did(ops) == last'.op \in ops /\ outfile' = outfile
SolverState == << problemVars, learnts, okay, trail, trail_lim, elog, under, over,
                  dirty, theoryVars, bvMoreVars >>

\* C21: bv_popcount and bv_unary throw when an argument is a negated literal,
\* and bv_unary also when the internal variables of its arguments are not
\* consecutive (var[i] = var[i-1] + 1); a call that throws has written no
\* trace line and built no operator, the solver's state and the trace are as
\* they were. A call that passes both tests writes its line and builds the
\* operator.
C21_BvOperatorArgsChecked ==
  [][ Did({"bv_popcount", "bv_unary"}) =>
        LET args == last'.arg[1]
            vs == [i \in 1 .. Len(args) |-> internalVar(var(args[i]))]
            negated == \E i \in 1 .. Len(args) : args[i] % 2 = 1
            gaps == \E i \in 2 .. Len(args) : vs[i] # vs[i - 1] + 1
            rejected == negated \/ (last'.op = "bv_unary" /\ gaps)
        IN IF rejected
           THEN /\ err' = "runtime_error"
                /\ gnf' = gnf
                /\ UNCHANGED SolverState
           ELSE /\ err' = ""
                /\ outfile => Len(gnf') = Len(gnf) + 1
                /\ \E o \in bvOps' : /\ o.args = vs
                                     /\ o.result = last'.arg[2]
                                     /\ o.op = (IF last'.op = "bv_unary"
                                                THEN "unary" ELSE "popcount")
                /\ bvOps' \ {o \in bvOps' : o.args = vs} = bvOps \ {o \in bvOps : o.args = vs} ]_vars

\* A traced bv_unary call over two positive literals whose external variables
\* are consecutive, while their internal ones are not, has just thrown.
C21_Witness ==
  /\ outfile
  /\ last.op = "bv_unary"
  /\ err = "runtime_error"
  /\ Len(last.arg[1]) = 2
  /\ \A i \in 1 .. 2 : last.arg[1][i] % 2 = 0
  /\ last.arg[1][2] \div 2 = last.arg[1][1] \div 2 + 1
  /\ internalVar(last.arg[1][2] \div 2) # internalVar(last.arg[1][1] \div 2) + 1


\* The variable of a listed literal is one this graph made for an edge.
ListsEdge(e) == var(e) \in ExtVars /\ \E i \in EdgeIds : edges[i].v = internalVar(var(e))

\* C22: newEdgeSet throws if the variable of any listed literal is not
\* allocated, is owned by no theory, is owned by another theory than the
\* graph passed, or is not an edge variable of that graph, that is, unless
\* every listed variable is an edge variable of the graph; when it throws no
\* clause, no variable and no at-most-one set was added to the solver. When
\* every listed variable is an edge variable the call returns.
C22_EdgeSetArgsChecked ==
  [][ /\ Did({"newEdgeSet"}) =>
           /\ \E i \in 1 .. Len(last'.arg[1]) : ~ListsEdge(last'.arg[1][i])
           /\ err' = "runtime_error"
           /\ UNCHANGED << nVars, clauses, learnts, amo, hidden, trail, okay, edgeSets >>
      /\ Len(edgeSets') > Len(edgeSets) =>
           LET made == edgeSets'[Len(edgeSets')]
           IN /\ \A i \in 1 .. Len(made.lits) : ListsEdge(made.lits[i])
              /\ err' = ""
              /\ made.enforce =>
                   /\ nVars' = nVars + Len(made.lits)
                   /\ Len(amo') = Len(amo) + 1 ]_vars

\* Calls have thrown for a variable that was never allocated, for a plain
\* variable, for a comparison literal of the bitvector theory and for a reach
\* literal of the graph, the last of these listed after an edge and with
\* enforcement asked for.
C22_Witness ==
  /\ last.op = "newEdgeSet"
  /\ err = "runtime_error"
  /\ Len(last.arg[1]) = 2
  /\ last.arg[2]
  /\ ListsEdge(last.arg[1][1])
  /\ var(last.arg[1][2]) \in ExtVars
  /\ \E r \in reachLits : r.v = internalVar(var(last.arg[1][2]))
  /\ bvCmps # {}
  /\ ~(Mapped \subseteq GraphTheoryVars \cup { c.v : c \in bvCmps })


\* The value of bitvector b when the variables are as in A and the bitvectors
\* without bits of their own have the values vals: a constant's value, or the
\* number its bits spell (bits[1] the lowest), or vals[b].
BitsValue(A, bits) ==
  LET F[i \in 0 .. Len(bits)] ==
        IF i = 0 THEN 0 ELSE F[i - 1] + (IF A[bits[i]] THEN 2 ^ (i - 1) ELSE 0)
  IN F[Len(bits)]
BvValue(A, vals, b) ==
  IF bvs[b + 1] >= 0 THEN bvs[b + 1]
  ELSE IF getBits(b) # <<>> THEN BitsValue(A, getBits(b))
  ELSE vals[b]

\* A and vals satisfy the clauses cls and give every comparison literal the
\* truth value of its comparison.
BvSatisfies(A, vals, cls) ==
  /\ \A c \in cls : \E l \in c : Holds(A, l)
  /\ \A c \in bvCmps :
       A[c.v] = (IF c.op = "geq" THEN BvValue(A, vals, c.bv) >= c.k
                 ELSE BvValue(A, vals, c.bv) > c.k)
  /\ \A c \in bvBvCmps :
       A[c.v] = (IF c.op = "geq"
                 THEN BvValue(A, vals, c.bv) >= BvValue(A, vals, c.other)
                 ELSE BvValue(A, vals, c.bv) > BvValue(A, vals, c.other))

EqOps == {"newBVComparison_const_eq", "newBVComparison_const_neq",
          "newBVComparison_bv_eq", "newBVComparison_bv_neq"}
\* The clauses that tie the literal c to bits of bitvectors.
BitLevel(c) ==
  { cl \in clauses : /\ neg(c) \in cl
                     /\ \E l \in cl, b \in bvBits :
                          \E i \in 1 .. Len(b.bits) : var(l) = b.bits[i] }

\* C23: in every assignment that satisfies the clauses and the comparisons,
\* the literal newBVComparison_const_eq(bv, k) returned is true exactly when
\* the bitvector's value is k, and the one newBVComparison_const_neq returned
\* exactly when it is not; newBVComparison_bv_eq and _bv_neq do the same for
\* two bitvectors. The bv-vs-bv forms add bit-level clauses only when both
\* bitvectors have as many explicit bits, and the assignments that satisfy
\* the rest satisfy these clauses too.
C23_EqLiteralMeansEqual ==
  last.op \in EqOps =>
    LET ofBvs == last.op \in {"newBVComparison_bv_eq", "newBVComparison_bv_neq"}
        isNeq == last.op \in {"newBVComparison_const_neq", "newBVComparison_bv_neq"}
        ret == internalLit(last.ret)
        c == mkLit(var(ret), FALSE)
    IN /\ \A A \in Assignments, vals \in [BvIds -> BvVals] :
            BvSatisfies(A, vals, clauses) =>
              LET left == BvValue(A, vals, last.arg[1])
                  right == IF ofBvs THEN BvValue(A, vals, last.arg[2]) ELSE last.arg[2]
              IN Holds(A, ret) = ((left = right) # isNeq)
       /\ sign(ret) = isNeq
       /\ (~ofBvs \/ Len(getBits(last.arg[1])) # Len(getBits(last.arg[2]))) =>
            BitLevel(c) = {}
       /\ \A A \in Assignments, vals \in [BvIds -> BvVals] :
            BvSatisfies(A, vals, clauses \ BitLevel(c)) => BvSatisfies(A, vals, clauses)

\* A disequality literal of two different two-bit bitvectors over the same
\* variables was returned, with bit-level clauses added.
C23_Witness ==
  /\ last.op = "newBVComparison_bv_neq"
  /\ last.arg[1] # last.arg[2]
  /\ Len(getBits(last.arg[1])) = 2
  /\ Len(getBits(last.arg[2])) = 2
  /\ BitLevel(mkLit(var(internalLit(last.ret)), FALSE)) # {}


(* ------------------------------ C24 ------------------------------------ *)
Range(q) == { q[i] : i \in 1 .. Len(q) }
\* The nodes reached from s over the edges E of positive capacity in cap.
RECURSIVE CapClosure(_, _, _, _)
CapClosure(cap, E, R, n) ==
  IF n = 0 THEN R
  ELSE CapClosure(cap, E, R \cup { e[2] : e \in { x \in E : cap[x] > 0 /\ x[1] \in R } }, n - 1)
\* The views that enable absent edges of cap, none of them in keep.
Enablings(cap, keep) ==
  LET D == { e \in DOMAIN cap : cap[e] = 0 /\ e \notin keep }
  IN { [e \in DOMAIN cap |-> IF e \in D THEN g[e] ELSE cap[e]] :
         g \in [D -> Capacities] }

\* C24: for every capacity assignment and every s # t, minCut(s, t, cut)
\* returns what maxFlow(s, t) returns, the capacities of the edges in cut add
\* up to it, and without the edges in cut no path of positive capacity leads
\* from s to t; and the absent edges that cross the cut are a reason: however
\* the other absent edges are enabled, the flow from s to t stays what it is
\* (for a reach predicate: there is still no path).
C24_MinCutIsMaxFlow ==
  last.op = "minCut" =>
    LET s == last.arg[1]
        t == last.arg[2]
        cut == Range(last.out)
    IN /\ last.ret = maxFlow(capacity, s, t)
       /\ cut \subseteq DOMAIN capacity
       /\ SumOver(capacity, cut) = last.ret
       /\ t \notin CapClosure(capacity, DOMAIN capacity \ cut, {s}, MaxFlowNode + 1)
       /\ \A cap2 \in Enablings(capacity, FlowReason(capacity, s, t)) :
            /\ maxFlow(cap2, s, t) = last.ret
            /\ last.ret = 0 => t \notin CapClosure(cap2, DOMAIN cap2, {s}, MaxFlowNode + 1)

\* minCut returned a flow of 2 over two paths, a cut of two edges, and an
\* absent edge crosses the cut.
C24_Witness ==
  /\ last.op = "minCut"
  /\ last.ret = 2
  /\ Len(last.out) = 2
  /\ FlowReason(capacity, last.arg[1], last.arg[2]) # {}


(* ------------------------------ C25 ------------------------------------ *)
\* The edges of the i-th edge set that the model of the last solve enables.
EnabledOf(i) ==
  { k \in 1 .. Len(edgeSets[i].lits) : getModel_Literal(edgeSets[i].lits[k]) = l_True }

\* C25: when a solve returns SAT, the model enables exactly one edge of every
\* edge set made with enforceEdgeAssignment = true; and a newEdgeSet call
\* with enforceEdgeAssignment = false adds no clause, no variable and no
\* at-most-one constraint.
C25_EnforcedSetPicksOne ==
  [][ /\ SolvedWith(l_True)' =>
           \A i \in 1 .. Len(edgeSets') :
             edgeSets'[i].enforce => Cardinality(EnabledOf(i)') = 1
      /\ (Len(edgeSets') > Len(edgeSets) /\ ~edgeSets'[Len(edgeSets')].enforce) =>
           UNCHANGED << nVars, clauses, amo, hidden, trail, okay >> ]_vars

\* A solve returned SAT with an enforced edge set of two edges, of which the
\* other constraints alone would have allowed both.
C25_Witness ==
  /\ SolvedWith(l_True)
  /\ \E i \in 1 .. Len(edgeSets) :
       /\ edgeSets[i].enforce
       /\ Len(edgeSets[i].lits) >= 2
       /\ Cardinality(EnabledOf(i)) = 1
  /\ \E r \in reachLits : ModelTrue(mkLit(r.v, FALSE))


(* ------------------------------ C26 ------------------------------------ *)
\* The step is a returned call of setTimeLimit or setMemoryLimit.
SetsLimit ==
  /\ Did({"setTimeLimit", "setMemoryLimit"})
  /\ NoCall_inProgress
  /\ UNCHANGED << pc, call, heap, nSolves, asynch_interrupt >>
  /\ proc'.stdout = proc.stdout

\* C26: a call of setTimeLimit or setMemoryLimit through the handle of
\* another solver leaves the limits that a later solve of solver 1 puts in
\* force as they were.
C26_LimitsArePerSolver ==
  [][ (SetsLimit /\ last'.arg[1] # 1) =>
        \A cur_time \in CpuTimes :
          LET before == enableResourceLimits(proc, cur_time)
              after == enableResourceLimits(proc', cur_time)
          IN /\ after.RLIMIT_CPU = before.RLIMIT_CPU
             /\ after.RLIMIT_AS = before.RLIMIT_AS ]_vars

(* ------------------------------ C27 ------------------------------------ *)
\* The solvers that were created and not yet passed to deleteSolver.
Created ==
  {1} \cup { s \in OtherSolvers :
               /\ heap[s] \in {"live", "interrupted"}
               /\ ~(call.op = "deleteSolver" /\ call.S = s) }
\* The solver objects that exist: constructed and not freed.
Allocated == {1} \cup { s \in OtherSolvers : heap[s] \in {"live", "interrupted"} }
\* The solvers a client holds: those no call is constructing or deleting.
Held == { s \in Created : ~(call.op = "newSolver_args" /\ call.S = s) }

Saved(p) == p.has_system_time_limit /\ p.has_system_mem_limit
Unsaved(p) == ~p.has_system_time_limit /\ ~p.has_system_mem_limit
SoftLimits(p) == << p.RLIMIT_CPU.rlim_cur, p.RLIMIT_AS.rlim_cur >>
SavedLimits(p) == << p.system_time_limit, p.system_mem_limit >>
HardLimits(p) == << p.RLIMIT_CPU.rlim_max, p.RLIMIT_AS.rlim_max >>

\* C28: the soft limits of CPU time and virtual memory that stand before
\* enableResourceLimits are the ones that stand after disableResourceLimits:
\* the first enable saves them, a second enable without a disable between
\* keeps what was saved, the first disable puts the saved limits back, and a
\* second disable (or an enable and a disable within one step) leaves the
\* limits alone; the hard limits never change.
C28_EnableDisableRestores ==
  [][ /\ (Unsaved(proc) /\ Saved(proc')) => SavedLimits(proc') = SoftLimits(proc)
      /\ (Saved(proc) /\ Saved(proc')) => SavedLimits(proc') = SavedLimits(proc)
      /\ (Saved(proc) /\ Unsaved(proc')) => SoftLimits(proc') = SavedLimits(proc)
      /\ (Unsaved(proc) /\ Unsaved(proc')) => SoftLimits(proc') = SoftLimits(proc)
      /\ HardLimits(proc') = HardLimits(proc)
      /\ Saved(proc') \/ Unsaved(proc') ]_vars

\* After a solve that aborted and a second one that the handler interrupted,
\* the limits are disabled and the process has its finite limits, with a
\* time limit and a memory limit configured.
C28_Witness ==
  /\ pc = "idle"
  /\ nSolves = 2
  /\ proc.stdout = 1
  /\ Unsaved(proc)
  /\ proc.time_limit = 0
  /\ proc.memory_limit = 1
  /\ proc.RLIMIT_CPU = Rlimit(1, 2)
  /\ proc.RLIMIT_AS = Rlimit(MiB, 2 * MiB)
  /\ SolvedWith(l_Undef)

(* ------------------------------ C29 ------------------------------------ *)
\* C29: once disableResourceLimits has run (no limits are saved), the
\* disposition of SIGXCPU is not the library's handler but the one the
\* process had before.
C29_HandlerOnlyDuringSolve ==
  Unsaved(proc) => proc.SIGXCPU # SIGNAL_HANDLER_api

(* ------------------------------ C30 ------------------------------------ *)
\* C30: when no solve or minimizeUnsatCore call is in progress, no saved-limit
\* flag is set.
C30_ExitLeavesLimitsDisabled ==
  pc = "idle" => Unsaved(proc)


(* ------------------------------ C31 ------------------------------------ *)
\* How the solve or minimizeUnsatCore call that has just returned ended: what
\* _solve returned; for minimizeUnsatCore l_True when the assumptions can be
\* satisfied, l_Undef when the minimization gave up (last_solution_optimal
\* is r != l_Undef), l_False when it ran to its end.
EndedWith ==
  IF last.op = "solve" THEN last.ret
  ELSE IF ~last_solution_optimal THEN l_Undef
  ELSE IF Satisfiable({ internalLit(last.arg[i]) : i \in 1 .. Len(last.arg) })
       THEN l_True
  ELSE l_False

ConflictOnlyAfterUnsat ==
  \A max_store_size \in 0 .. MaxStore :
    LET g == getConflictClause_call(max_store_size)
    IN /\ (g.ret >= 0) = (EndedWith = l_False)
       /\ g.ret >= 0 =>
            /\ g.ret = Cardinality(conflict)
            /\ Len(g.store) = IF g.ret < max_store_size THEN g.ret
                              ELSE max_store_size

\* C31: when a solve or minimizeUnsatCore call has returned, getConflictClause
\* returns a size >= 0 exactly if that call ended UNSAT and -1 if it ended SAT
\* or UNKNOWN; with a size it writes min(size, max_store_size) literals.
C31_ConflictOnlyAfterUnsat ==
  [][ (last' # last /\ last'.op \in {"solve", "minimizeUnsatCore"} /\ last'.ret >= 0) =>
        ConflictOnlyAfterUnsat' ]_vars

(* ------------------------------ C32 ------------------------------------ *)
MinimizesConflict == last'.op = "minimizeConflictClause" /\ last' # last

TrueLines(l) == Cardinality({ i \in 1 .. Len(gnf) : gnf[i] = trueLine(l) })

\* C33: whenever an output file is open and the constant-true literal has
\* been made, the file holds the literal's unit clause exactly once,
\* whatever the order of the true_lit and setOutputFile calls was.
C33_TrueLitOnceInFile ==
  (outfile /\ const_true # lit_Undef) => TrueLines(const_true) = 1

\* The literal was made before any file was set, the file was set and changed,
\* and true_lit was called again since.
C33_Witness ==
  /\ outfile
  /\ const_true # lit_Undef
  /\ last.op = "true_lit"
  /\ Len(gnf) >= 3
  /\ gnf[2] = trueLine(const_true)

(* ------------------------------ C34 ------------------------------------ *)
\* The step is a traced bv_ite call.
TracesIte ==
  /\ last'.op = "bv_ite"
  /\ Len(gnf') = Len(gnf) + 1
  /\ gnf'[Len(gnf')].t = "bv_ite"
  /\ bvOps' # bvOps

\* C34: the line bv_ite writes carries the DIMACS number of the condition
\* literal it was given, the literal it hands to the bitvector theory.
C34_IteTracesCondition ==
  [][ TracesIte =>
        /\ gnf'[Len(gnf')].cond = dimacs(last'.arg[1])
        /\ \E o \in bvOps' \ bvOps :
             o.op = "ite" /\ dimacs_S(o.args[1]) = gnf'[Len(gnf')].cond ]_vars

(* ------------------------------ C35 ------------------------------------ *)
BvPredOps == {"shortestPathUnweighted_lt_bv", "shortestPath_lt_bv",
              "shortestPath_leq_bv"}

\* Whether the predicate the call c asks for is in the graph's tables.
PostedAny(c) ==
  IF c.op = "reaches" THEN hasReach(c.arg[1], c.arg[2])
  ELSE IF c.op \in BvPredOps THEN hasPred("distance_bv", c.arg)
  ELSE Posted(c)

\* C35: a predicate constructor called for a predicate that was posted
\* before writes no further line to the trace.
C35_PostedOnceInTrace ==
  [][ (Did({"reaches"} \cup PredOps \cup BvPredOps) /\ PostedAny(last')) =>
        gnf' = gnf ]_vars

(* ------------------------------ C36 ------------------------------------ *)
\* C36: shortestPath_lt_bv called with the arguments of the
\* shortestPathUnweighted_lt_bv call before it returns another literal.
C36_KindsShareNoLiteral ==
  [][ /\ last.op = "shortestPathUnweighted_lt_bv"
      /\ Did({"shortestPath_lt_bv"})
      /\ last'.arg = last.arg
      => last'.ret # last.ret ]_vars

(* ------------------------------ C37 ------------------------------------ *)
\* The solve directives of the file read so far, and whether the file ends
\* right after one.
SolveDirectives ==
  { j \in 1 .. Len(reader.file) : reader.file[j].d = "solve" }
EndsAfterSolve ==
  /\ reader.file # <<>>
  /\ reader.file[Len(reader.file)].d = "solve"
  /\ ~reader.trailing

\* C37: every solve readGNF issues is given exactly the assumptions the
\* parser holds at that point (the final solve none of an earlier one), and
\* when readGNF returns it has issued one solve per solve directive and one
\* more if the file does not end right after a solve directive.
C37_ReadSolvesAsParsed ==
  [][ /\ (nSolves' = nSolves + 1) =>
           reader.assumps = pushAssumptions(<<>>, reader.parser_assumptions)
      /\ (reader'.at = "done") =>
           nSolves' = Cardinality(SolveDirectives)
                        + (IF EndsAfterSolve THEN 0 ELSE 1) ]_vars

(* ------------------------------ C38 ------------------------------------ *)
\* C38: initBVTheory makes at most one theory object and every call returns
\* that one; once the theory exists every graph of the solver is attached to
\* it, whether the graph was made before or after the theory.
C38_OneTheoryForAllGraphs ==
  /\ bv_theory \in {0, 1}
  /\ last.op = "initBVTheory" => (last.ret = 1 /\ bv_theory = 1)
  /\ bv_theory # 0 => \A i \in 1 .. Len(graphs) : graphs[i] = bv_theory

\* initBVTheory was called between two newGraph calls, and again after them.
C38_Witness ==
  /\ bv_theory = 1
  /\ Len(graphs) = 2
  /\ last.op = "initBVTheory"
  /\ Len(gnf) = 3
  /\ gnf[2].t = "digraph"
  /\ gnf[3].t = "digraph"

(* ------------------------------ C39 ------------------------------------ *)
ObjectiveOps == {"maximizeBV", "minimizeBV"}

\* C39: a maximizeBV or minimizeBV call without a bitvector theory or for an
\* id that is not allocated leaves the objective list and the trace as they
\* were; any other call appends one objective and, when traced, one line.
C39_FailedObjectiveLeavesNoTrace ==
  [][ Did(ObjectiveOps) =>
        IF bv_theory = 0 \/ last'.arg[1] \notin BvIds
        THEN optimization_objectives' = optimization_objectives /\ gnf' = gnf
        ELSE (optimization_objectives' # optimization_objectives \/ gnf' # gnf) =>
               /\ Len(optimization_objectives') = Len(optimization_objectives) + 1
               /\ Len(gnf') = Len(gnf) + (IF outfile THEN 1 ELSE 0) ]_vars

====
